---- MODULE Spec2Model ----
(***************************************************************************)
(* Vector storage and retrieval core of the iNFT agent: the binary vector  *)
(* blob codec, the fp16 codec, the similarity utilities, the manifest      *)
(* schema/loader and the in-memory vector stores with their cosine search. *)
(*                                                                         *)
(* Numbers.  A 32-bit float is the record [s, e, m] of its IEEE-754 sign,  *)
(* biased exponent and 23-bit mantissa fields; a half is its 16-bit        *)
(* pattern; a byte is 0..255.  Typed-array views use the platform byte     *)
(* order, little-endian on every platform Node runs on.                    *)
(***************************************************************************)
EXTENDS Integers, Sequences, FiniteSets, TLC

\* ------------------------------------------------------------------ bounds

\* Small vector dimensions 0..MaxDim are enumerated exhaustively.
MaxDim == 2
\* Lists of 1..MaxCount vectors are enumerated exhaustively.
MaxCount == 2
\* A buffer may lose up to MaxCut trailing bytes or gain up to MaxCut bytes.
MaxCut == 5

\* ------------------------------------------------------------ float32 bits

F32(s, e, m) == [s |-> s, e |-> e, m |-> m]

PosZero == F32(0, 0, 0)
NegZero == F32(1, 0, 0)
PosOne == F32(0, 127, 0)
NegOne == F32(1, 127, 0)
PosTwo == F32(0, 128, 0)
\* -4.5689...: every one of its four bytes is different (56 34 92 C0).
NegOdd == F32(1, 129, 1193046)
\* the quiet NaN a Float32Array store of NaN writes
QuietNaN == F32(0, 255, 4194304)

\* The four bytes of a float32 in memory order (little-endian).
F32Bytes(f) ==
  << f.m % 256,
     (f.m \div 256) % 256,
     (f.m \div 65536) + 128 * (f.e % 2),
     (f.e \div 2) + 128 * f.s >>

\* The float32 whose four bytes in memory order are b0..b3.
BytesF32(b0, b1, b2, b3) ==
  F32(b3 \div 128, (b3 % 128) * 2 + (b2 \div 128), (b2 % 128) * 65536 + b1 * 256 + b0)

\* 2^n for n >= 0
RECURSIVE Pow2(_)
Pow2(n) == IF n <= 0 THEN 1 ELSE 2 * Pow2(n - 1)

\* floor(log2(n)) for n >= 1
RECURSIVE FloorLog2(_)
FloorLog2(n) == IF n <= 1 THEN 0 ELSE 1 + FloorLog2(n \div 2)

\* --------------------------------------------------------------- fp16 codec

\* One element of fp16ToFloat32Array: the float32 stored for half pattern h.
Fp16ToFloat32(h) ==
  LET s == (h \div 32768) % 2
      e == (h \div 1024) % 32
      f == h % 1024
  IN  IF e = 0
        THEN IF f = 0
               THEN F32(s, 0, 0)
               ELSE LET k == FloorLog2(f)
                    IN  F32(s, 103 + k, (f - Pow2(k)) * Pow2(23 - k))
        ELSE IF e = 31
               THEN IF f # 0 THEN QuietNaN ELSE F32(s, 255, 0)
               ELSE F32(s, e + 112, f * 8192)

fp16ToFloat32Array(src) == [i \in 1..Len(src) |-> Fp16ToFloat32(src[i])]

\* One element of float32ToFp16Array: the half pattern stored for float32 x.
Float32ToFp16(x) ==
  LET isNaN == x.e = 255 /\ x.m # 0
      isZero == x.e = 0 /\ x.m = 0
      \* sign = x < 0 ? 1 : 0   (false for NaN and for -0)
      sign == IF isNaN \/ isZero THEN 0 ELSE x.s
      \* e = floor(log2(|x|)) + 15
      e == x.e - 112
  IN  IF isNaN THEN sign * 32768 + 32256
      ELSE IF x.e = 255 THEN sign * 32768 + 31744
      ELSE IF isZero THEN sign * 32768
      ELSE IF x.e = 0 \/ e <= 0
        \* "subnormal": m = x / 2^-14 lies in [0, 1); Math.round(m) is 1 from 0.5 up
        THEN sign * 32768 + (IF x.e = 112 THEN 1 ELSE 0)
      ELSE IF e >= 31 THEN sign * 32768 + 31744
      ELSE LET frac == (x.m + 4096) \div 8192   \* Math.round(m * 1024)
           IN  sign * 32768 + e * 1024 + (frac % 1024)

float32ToFp16Array(src) == [i \in 1..Len(src) |-> Float32ToFp16(src[i])]

\* ------------------------------------------------------------- byte access

U32LE(n) == << n % 256, (n \div 256) % 256, (n \div 65536) % 256, (n \div 16777216) % 256 >>
U16LE(n) == << n % 256, (n \div 256) % 256 >>

\* DataView.getUint32(off, true) / getUint16(off, true) / getUint8(off); off is 0-based
GetU32LE(bytes, off) ==
  bytes[off + 1] + 256 * bytes[off + 2] + 65536 * bytes[off + 3] + 16777216 * bytes[off + 4]
GetU16LE(bytes, off) == bytes[off + 1] + 256 * bytes[off + 2]
GetU8(bytes, off) == bytes[off + 1]

\* "VECB", written and read big-endian
MAGIC == << 86, 69, 67, 66 >>

Min(a, b) == IF a <= b THEN a ELSE b
Max(a, b) == IF a >= b THEN a ELSE b

\* TypedArray.prototype.subarray(begin, end) for 0 <= begin <= end: both ends are
\* clamped to the view's length.
SubArray(view, begin, end) ==
  LET b == Min(begin, Len(view))
      e == Min(end, Len(view))
  IN  [i \in 1..Max(e - b, 0) |-> view[b + i]]

\* new Float32Array(buffer, off, floor(byteLength / 4)) over the payload bytes
Float32View(payload) ==
  [j \in 1..(Len(payload) \div 4) |->
     BytesF32(payload[4 * j - 3], payload[4 * j - 2], payload[4 * j - 1], payload[4 * j])]

\* new Uint16Array(buffer, off, floor(byteLength / 2)) over the payload bytes
Uint16View(payload) ==
  [j \in 1..(Len(payload) \div 2) |-> payload[2 * j - 1] + 256 * payload[2 * j]]

\* ---------------------------------------------------------- vector blob codec

QuantFp32 == 0
QuantFp16 == 1

\* The payload of encodeVectorsBlob for count vectors of length dim: element j of
\* vector i is written at element offset (i - 1) * dim + (j - 1), as a float32
\* (quant 0, 4 bytes) or converted to a half (2 bytes).
EncodePayload(vectors, quant) ==
  LET count == Len(vectors)
      dim == Len(vectors[1])
      width == IF quant = 0 THEN 4 ELSE 2
      elem(n) == vectors[(n \div dim) + 1][(n % dim) + 1]
  IN  [k \in 1..(dim * count * width) |->
         LET n == (k - 1) \div width
             b == ((k - 1) % width) + 1
         IN  IF quant = 0
               THEN F32Bytes(elem(n))[b]
               ELSE U16LE(Float32ToFp16(elem(n)))[b]]

\* The v1 header with dim and count written in each other's place.
EncodeHeaderV1Swapped(dim, count, quant) ==
  MAGIC \o << 1, (IF quant = 0 THEN 1 ELSE 2), 0, 0 >> \o U32LE(count) \o U32LE(dim)

EncodeHeaderV1(dim, count, quant) ==
  MAGIC \o << 1, (IF quant = 0 THEN 1 ELSE 2), 0, 0 >> \o U32LE(dim) \o U32LE(count)

EncodeHeaderV0(dim, count, quant) ==
  MAGIC \o U32LE(dim) \o U32LE(count) \o << quant >>

\* An encoder that also refuses vectors of length 0.
encodeVectorsBlobNoEmptyVectors(vectors, quant, format) ==
  IF Len(vectors) = 0 THEN [ok |-> FALSE, error |-> "No vectors to encode"]
  ELSE LET dim == Len(vectors[1])
           count == Len(vectors)
       IN  IF dim = 0 \/ \E i \in 1..count : Len(vectors[i]) # dim
             THEN [ok |-> FALSE, error |-> "Dimension mismatch"]
             ELSE [ok |-> TRUE,
                   bytes |-> (IF format = "v1"
                                THEN EncodeHeaderV1(dim, count, quant)
                                ELSE EncodeHeaderV0(dim, count, quant))
                             \o EncodePayload(vectors, quant)]

\* encodeVectorsBlob(vectors, quant, format = "v1")
encodeVectorsBlob(vectors, quant, format) ==
  IF Len(vectors) = 0 THEN [ok |-> FALSE, error |-> "No vectors to encode"]
  ELSE LET dim == Len(vectors[1])
           count == Len(vectors)
       IN  IF \E i \in 1..count : Len(vectors[i]) # dim
             THEN [ok |-> FALSE, error |-> "Dimension mismatch"]
             ELSE [ok |-> TRUE,
                   bytes |-> (IF format = "v1"
                                THEN EncodeHeaderV1(dim, count, quant)
                                ELSE EncodeHeaderV0(dim, count, quant))
                             \o EncodePayload(vectors, quant)]

\* The older encodeVectorsBlob(vectors, quant): it takes no format and writes
\* the 13-byte header.
encodeVectorsBlobLegacy(vectors, quant) ==
  IF Len(vectors) = 0 THEN [ok |-> FALSE, error |-> "No vectors to encode"]
  ELSE LET dim == Len(vectors[1])
           count == Len(vectors)
       IN  IF \E i \in 1..count : Len(vectors[i]) # dim
             THEN [ok |-> FALSE, error |-> "Dimension mismatch"]
             ELSE [ok |-> TRUE,
                   bytes |-> EncodeHeaderV0(dim, count, quant) \o EncodePayload(vectors, quant)]

\* The sniff without its test of the dtype byte.
LooksV1NoDtype(bytes) ==
  /\ Len(bytes) >= 16
  /\ GetU8(bytes, 4) >= 1
  /\ GetU8(bytes, 4) <= 10
  /\ GetU16LE(bytes, 6) = 0

\* The v1 sniff of decodeVectorsBlob; bytes has at least 8 bytes.
LooksV1(bytes) ==
  /\ Len(bytes) >= 16
  /\ GetU8(bytes, 4) >= 1
  /\ GetU8(bytes, 4) <= 10
  /\ (GetU8(bytes, 5) = 1 \/ GetU8(bytes, 5) = 2)
  /\ GetU16LE(bytes, 6) = 0

\* The slicing with vector i taken from element i instead of element i * dim.
DecodeVectorsStride1(payload, dim, count, quant) ==
  IF quant = 0
    THEN LET view == Float32View(payload)
         IN  [i \in 1..count |-> SubArray(view, i - 1, i - 1 + dim)]
    ELSE LET view16 == Uint16View(payload)
         IN  [i \in 1..count |-> fp16ToFloat32Array(SubArray(view16, i - 1, i - 1 + dim))]

\* The vectors decodeVectorsBlob slices out of the payload.
DecodeVectors(payload, dim, count, quant) ==
  IF quant = 0
    THEN LET view == Float32View(payload)
         IN  [i \in 1..count |-> SubArray(view, (i - 1) * dim, i * dim)]
    ELSE LET view16 == Uint16View(payload)
         IN  [i \in 1..count |-> fp16ToFloat32Array(SubArray(view16, (i - 1) * dim, i * dim))]

\* Bytes off+1..Len of the buffer: new Uint8Array(buffer, byteOffset + off, byteLength - off)
PayloadOf(bytes, off) == [i \in 1..(Len(bytes) - off) |-> bytes[off + i]]

DecodeV1(bytes) ==
  LET dim == GetU32LE(bytes, 8)
      count == GetU32LE(bytes, 12)
      quant == IF GetU8(bytes, 5) = 1 THEN 0 ELSE 1
  IN  [ok |-> TRUE,
       header |-> [dim |-> dim, count |-> count, quant |-> quant, version |-> GetU8(bytes, 4)],
       vectors |-> DecodeVectors(PayloadOf(bytes, 16), dim, count, quant)]

\* The v0 branch; header.version is undefined there, written 0.
DecodeV0(bytes) ==
  IF Len(bytes) < 13 THEN [ok |-> FALSE, error |-> "RangeError"]
  ELSE LET dim == GetU32LE(bytes, 4)
           count == GetU32LE(bytes, 8)
           q == GetU8(bytes, 12)
       IN  IF q \notin {0, 1, 2}
             THEN [ok |-> FALSE, error |-> "Unknown quant code in v0 header"]
             ELSE LET quant == IF q = 0 THEN 0 ELSE 1
                  IN  [ok |-> TRUE,
                       header |-> [dim |-> dim, count |-> count, quant |-> quant, version |-> 0],
                       vectors |-> DecodeVectors(PayloadOf(bytes, 13), dim, count, quant)]

\* decodeVectorsBlob(buf): reads past the end of the buffer throw RangeError.
decodeVectorsBlob(bytes) ==
  IF Len(bytes) < 4 THEN [ok |-> FALSE, error |-> "RangeError"]
  ELSE IF SubSeq(bytes, 1, 4) # MAGIC THEN [ok |-> FALSE, error |-> "Bad vectors blob magic"]
  ELSE IF Len(bytes) < 8 THEN [ok |-> FALSE, error |-> "RangeError"]
  ELSE IF LooksV1(bytes) THEN DecodeV1(bytes)
  ELSE DecodeV0(bytes)

\* The older decodeVectorsBlob: the v0 header only, the quant byte taken as it is.
decodeVectorsBlobLegacy(bytes) ==
  IF Len(bytes) < 4 THEN [ok |-> FALSE, error |-> "RangeError"]
  ELSE IF SubSeq(bytes, 1, 4) # MAGIC THEN [ok |-> FALSE, error |-> "Bad vectors blob magic"]
  ELSE IF Len(bytes) < 13 THEN [ok |-> FALSE, error |-> "RangeError"]
  ELSE LET dim == GetU32LE(bytes, 4)
           count == GetU32LE(bytes, 8)
           quant == GetU8(bytes, 12)
       IN  IF quant \notin {0, 1}
             THEN [ok |-> FALSE, error |-> "Unknown quant code"]
             ELSE [ok |-> TRUE,
                   header |-> [dim |-> dim, count |-> count, quant |-> quant, version |-> 0],
                   vectors |-> DecodeVectors(PayloadOf(bytes, 13), dim, count, quant)]

\* ------------------------------------------------------------ codec inputs

\* Component values of the exhaustively enumerated lists.
Vals == {PosOne, NegOdd}

\* Every list of 1..MaxCount vectors of one dimension 0..MaxDim over Vals.
SmallLists ==
  UNION { [1..c -> [1..d -> Vals]] : c \in 1..MaxCount, d \in 0..MaxDim }

\* Lists of special values: signed zeros, NaN, the infinities, a float32 subnormal,
\* a value below the half range, and values whose half mantissa rounds up.
SpecialLists ==
  { << << PosZero, NegZero >> >>,
    << << QuietNaN, F32(0, 255, 0) >>, << F32(1, 255, 0), F32(1, 255, 1) >> >>,
    << << F32(0, 0, 1), F32(0, 112, 0), F32(1, 100, 5) >> >>,
    << << F32(0, 126, 8388607) >>, << F32(0, 127, 8388000) >> >> }

\* Dimensions around the ones whose little-endian bytes read as a v1 version and
\* dtype byte followed by a zero pad.
BigDims == {256, 257, 266, 267, 513}

\* A vector of dimension d that starts with two zeros.
BigVector(d, seed) ==
  [j \in 1..d |-> IF j <= 2 THEN PosZero
                  ELSE IF (j + seed) % 3 = 0 THEN NegOdd
                  ELSE IF (j + seed) % 3 = 1 THEN PosOne ELSE PosTwo]

BigLists == { [i \in 1..c |-> BigVector(d, i)] : c \in 1..2, d \in BigDims }

\* Lists encodeVectorsBlob refuses: the empty list and lists of unequal lengths.
InvalidLists ==
  { << >>,
    << << PosOne >>, << PosOne, NegOdd >> >>,
    << << PosOne, PosOne >>, << >> >> }

InputLists == SmallLists \cup SpecialLists \cup BigLists \cup InvalidLists

\* ------------------------------------------------- optional values, objects

\* A value that may be undefined: << >> for undefined, << v >> for v.
None == << >>
Some(v) == << v >>

\* obj.k of a JSON object (a function on its keys): undefined for a missing key.
Field(obj, k) == IF k \in DOMAIN obj THEN << obj[k] >> ELSE << >>

\* JavaScript truthiness of an optional string, boolean, byte string.
TruthyStr(opt) == opt # << >> /\ opt[1] # ""
TruthyBool(opt) == opt # << >> /\ opt[1]
TruthyBytes(opt) == opt # << >> /\ Len(opt[1]) > 0

\* ------------------------------------------------------- similarity utilities

\* Store vectors hold integer-valued floats, possibly divided by a norm: the
\* record [num, den2] is the vector num / sqrt(den2), in exact arithmetic.

\* The integer a float32 holds (the stores here are fed integer-valued floats).
F32ToInt(f) ==
  IF f.e = 0 /\ f.m = 0 THEN 0
  ELSE LET mag == (8388608 + f.m) \div Pow2(150 - f.e)
       IN  IF f.s = 1 THEN 0 - mag ELSE mag

\* new Float32Array([n]) for a small integer n
IntToF32(n) ==
  IF n = 0 THEN PosZero
  ELSE LET a == IF n < 0 THEN 0 - n ELSE n
           k == FloorLog2(a)
       IN  F32(IF n < 0 THEN 1 ELSE 0, 127 + k, (a - Pow2(k)) * Pow2(23 - k))

RECURSIVE SumSeq(_)
SumSeq(xs) == IF xs = << >> THEN 0 ELSE Head(xs) + SumSeq(Tail(xs))

SumSq(num) == SumSeq([i \in 1..Len(num) |-> num[i] * num[i]])

\* A Float32Array of integer-valued floats as a store vector.
VecOfFloats(fs) == [num |-> [i \in 1..Len(fs) |-> F32ToInt(fs[i])], den2 |-> 1]

\* The vector has L2 norm 1.
IsUnit(vec) == SumSq(vec.num) = vec.den2

\* normalizeInPlace(vec): every element divided by the norm when the norm is > 0.
normalizeInPlace(vec) ==
  IF SumSq(vec.num) > 0 THEN [num |-> vec.num, den2 |-> SumSq(vec.num)] ELSE vec

\* cosine(a, b): the dot product over a's length, as the score num / sqrt(den2).
cosine(a, b) ==
  [num |-> SumSeq([i \in 1..Len(a.num) |-> a.num[i] * b.num[i]]),
   den2 |-> a.den2 * b.den2]

\* score x < score y
ScoreLess(x, y) ==
  IF x.num < 0 /\ y.num >= 0 THEN TRUE
  ELSE IF x.num >= 0 /\ y.num < 0 THEN FALSE
  ELSE IF x.num >= 0
    THEN x.num * x.num * y.den2 < y.num * y.num * x.den2
    ELSE x.num * x.num * y.den2 > y.num * y.num * x.den2

\* sha256Hex(bytes): "sha256:" and the digest.  The digest stands for the bytes
\* it was computed over: two buffers have one digest only if they are equal.
sha256Hex(bytes) == << "sha256:", bytes >>

\* ------------------------------------------------------------------ manifest

\* A JSON object is a function on its keys; an absent key is an absent property.

\* InftModelCard / InftModelEmbedSchema: the embedding model a manifest declares.
ModelCard(dim, normalize) ==
  [id |-> "bge-small", dim |-> dim, normalize |-> normalize,
   instruction |-> "none", mode |-> "passage"]

\* The 0G provider descriptor that InftModelSchema accepts under "model".
ProviderModel == [providerId |-> "0g-provider"]

Character == [id |-> "c1", name |-> "Ada"]

IdNames == << "e1", "e2", "e3", "e4", "e5", "e6", "e7" >>
TextNames == << "t1", "t2", "t3", "t4", "t5", "t6", "t7" >>

\* InftEntry number i: inline holds the optional embedding array, meta the
\* optional metadata record.
Entry(i, inline, meta) ==
  [k \in {"id", "type", "text"}
        \cup (IF inline = << >> THEN {} ELSE {"embedding"})
        \cup (IF meta = << >> THEN {} ELSE {"meta"}) |->
     CASE k = "id" -> IdNames[i]
       [] k = "type" -> "knowledge"
       [] k = "text" -> TextNames[i]
       [] k = "embedding" -> inline[1]
       [] k = "meta" -> meta[1]]

\* A manifest document.  shape "card" is the InftManifest of types.ts (model is
\* the embedding model card); shape "embed" is the document InftManifestSchema
\* describes (model is the provider, e_model the embedding model card).
Document(shape, card, entries, uri, checksum) ==
  [k \in {"version", "character", "model", "entries"}
        \cup (IF shape = "embed" THEN {"e_model"} ELSE {})
        \cup (IF uri = << >> THEN {} ELSE {"vectors_uri"})
        \cup (IF checksum = << >> THEN {} ELSE {"vectors_checksum"}) |->
     CASE k = "version" -> "1.0"
       [] k = "character" -> Character
       [] k = "model" -> IF shape = "embed" THEN ProviderModel ELSE card
       [] k = "e_model" -> card
       [] k = "entries" -> entries
       [] k = "vectors_uri" -> uri[1]
       [] k = "vectors_checksum" -> checksum[1]]

\* z.object(...) keeps the keys of its shape and strips every other key.
Strip(obj, keys) == [k \in (DOMAIN obj) \cap keys |-> obj[k]]

InftModelEmbedKeys ==
  {"id", "dim", "normalize", "instruction", "mode", "quantization", "checksum"}
InftModelKeys == {"providerId", "name"}
InftEntryKeys == {"id", "type", "text", "meta", "embedding_b64", "embedding"}
InftManifestKeys ==
  {"version", "character", "model", "e_model", "entries", "vectors_uri",
   "vectors_index", "license"}

\* The document passes InftManifestSchema: required keys present, a positive
\* dim, at least one entry, and inline vectors when nothing external is named.
SchemaAccepts(raw) ==
  /\ {"version", "character", "model", "e_model", "entries"} \subseteq DOMAIN raw
  /\ "providerId" \in DOMAIN raw.model
  /\ {"id", "dim", "normalize", "instruction", "mode"} \subseteq DOMAIN raw.e_model
  /\ raw.e_model.dim > 0
  /\ Len(raw.entries) >= 1
  /\ \A i \in 1..Len(raw.entries) :
       {"id", "type", "text"} \subseteq DOMAIN raw.entries[i]
  /\ (~ (TruthyStr(Field(raw, "vectors_uri")) \/ TruthyStr(Field(raw, "vectors_index"))))
       => \A i \in 1..Len(raw.entries) :
            \/ "embedding" \in DOMAIN raw.entries[i]
            \/ TruthyBytes(Field(raw.entries[i], "embedding_b64"))

\* What InftManifestSchema.parse returns for an accepted document.
SchemaOutput(raw) ==
  [k \in (DOMAIN raw) \cap InftManifestKeys |->
     CASE k = "model" -> Strip(raw.model, InftModelKeys)
       [] k = "e_model" -> Strip(raw.e_model, InftModelEmbedKeys)
       [] k = "entries" ->
            [i \in 1..Len(raw.entries) |-> Strip(raw.entries[i], InftEntryKeys)]
       [] OTHER -> raw[k]]

\* InftManifestSchema.parse(raw)
InftManifestSchemaParse(raw) ==
  IF SchemaAccepts(raw)
    THEN [ok |-> TRUE, value |-> SchemaOutput(raw)]
    ELSE [ok |-> FALSE, error |-> "ZodError"]

\* loadManifest(source) for a source whose JSON text is the document raw.
loadManifest(raw) == InftManifestSchemaParse(raw)

\* -------------------------------------------------------------- vector stores

\* The outcome of a constructor or a search: a value or the error thrown.
Fail(message) == [ok |-> FALSE, error |-> message]

\* manifest.vectors_checksum || manifest.model?.checksum
ExpectedChecksum(manifest) ==
  IF "vectors_checksum" \in DOMAIN manifest
    THEN Some(manifest.vectors_checksum)
    ELSE IF "model" \in DOMAIN manifest THEN Field(manifest.model, "checksum") ELSE None

\* Step 5 of fromManifestWithExternalVectors: the store of the decoded vectors,
\* vector i paired with entry i, normalized when the model card does not say
\* the vectors are normalized already.
AssembleStore(manifest, vectors) ==
  LET normalize == Field(manifest.model, "normalize")
  IN  [cls |-> "ExternalVectorStore",
       id |-> Field(manifest.model, "id"),
       dim |-> Field(manifest.model, "dim"),
       normalize |-> normalize,
       vectors |-> [i \in 1..Len(vectors) |->
                      IF ~ TruthyBool(normalize)
                        THEN normalizeInPlace(VecOfFloats(vectors[i]))
                        ELSE VecOfFloats(vectors[i])],
       texts |-> [i \in 1..Len(vectors) |-> manifest.entries[i].text],
       metas |-> [i \in 1..Len(vectors) |-> Field(manifest.entries[i], "meta")],
       ids |-> [i \in 1..Len(vectors) |-> Some(manifest.entries[i].id)]]

\* The contract checks and the assembly that follow the decode.
CheckAndAssemble(manifest, d) ==
  IF ~ d.ok THEN Fail(d.error)
  ELSE IF Field(manifest.model, "dim") # Some(d.header.dim) THEN Fail("Blob dim != manifest dim")
  ELSE IF Len(d.vectors) # Len(manifest.entries) THEN Fail("Blob count != manifest entries")
  ELSE [ok |-> TRUE, store |-> AssembleStore(manifest, d.vectors)]

\* The verifying constructor with the decode moved before the checksum step.
fromManifestWithExternalVectorsDecodeFirst(manifest, fetched) ==
  IF ~ TruthyStr(Field(manifest, "vectors_uri")) THEN Fail("Manifest has no vectors_uri")
  ELSE IF ~ fetched.ok THEN Fail(fetched.error)
  ELSE LET expected == ExpectedChecksum(manifest)
           d == decodeVectorsBlob(fetched.bytes)
       IN  IF ~ d.ok THEN Fail(d.error)
           ELSE IF expected # None /\ sha256Hex(fetched.bytes) # expected[1]
             THEN Fail("Vectors checksum mismatch")
             ELSE CheckAndAssemble(manifest, d)

\* ExternalVectorStore.fromManifestWithExternalVectors, the checksum-verifying
\* version: fetch, verify, decode, check dim and count, assemble.
fromManifestWithExternalVectors(manifest, fetched) ==
  IF ~ TruthyStr(Field(manifest, "vectors_uri")) THEN Fail("Manifest has no vectors_uri")
  ELSE IF ~ fetched.ok THEN Fail(fetched.error)
  ELSE LET expected == ExpectedChecksum(manifest)
       IN  IF expected # None /\ sha256Hex(fetched.bytes) # expected[1]
             THEN Fail("Vectors checksum mismatch")
             ELSE CheckAndAssemble(manifest, decodeVectorsBlob(fetched.bytes))

\* ExternalVectorStore.fromManifestWithExternalVectors, the version over the
\* global fetch: fetch, decode, check dim and count, assemble.
fromManifestWithExternalVectorsHttp(manifest, fetched) ==
  IF ~ TruthyStr(Field(manifest, "vectors_uri")) THEN Fail("Manifest has no vectors_uri")
  ELSE IF ~ fetched.ok THEN Fail("Failed to fetch vectors blob")
  ELSE CheckAndAssemble(manifest, decodeVectorsBlob(fetched.bytes))

\* ExternalVectorStore.fromManifestWithExternalVectors, the version that reads
\* e_model: fetch, decode, trim vectors and entries to the shorter of the two,
\* normalize when e_model.normalize is set.
fromManifestWithExternalVectorsTrim(manifest, fetched) ==
  IF ~ TruthyStr(Field(manifest, "vectors_uri"))
    THEN Fail("Manifest has no vectors_uri/vectorsUrl/vectors.")
  ELSE IF ~ fetched.ok THEN Fail(fetched.error)
  ELSE LET d == decodeVectorsBlob(fetched.bytes)
       IN  IF ~ d.ok THEN Fail(d.error)
           ELSE IF Len(d.vectors) = 0
             THEN Fail("Failed to decode vectors: empty or invalid vectors.bin.")
           ELSE
             LET entries == IF "entries" \in DOMAIN manifest THEN manifest.entries ELSE << >>
                 n == Min(Len(d.vectors), IF Len(entries) # 0 THEN Len(entries) ELSE Len(d.vectors))
                 e_model == IF "e_model" \in DOMAIN manifest THEN manifest.e_model ELSE << >>
                 shouldNormalize == TruthyBool(Field(e_model, "normalize"))
                 dim == IF "dim" \in DOMAIN e_model THEN e_model.dim ELSE Len(d.vectors[1])
             IN  IF dim = 0 THEN Fail("Cannot determine vector dimension.")
                 ELSE [ok |-> TRUE,
                       store |->
                         [cls |-> "ExternalVectorStore(trim)",
                          id |-> None,
                          dim |-> Some(dim),
                          normalize |-> Some(shouldNormalize),
                          vectors |-> [i \in 1..n |->
                                         IF shouldNormalize
                                           THEN normalizeInPlace(VecOfFloats(d.vectors[i]))
                                           ELSE VecOfFloats(d.vectors[i])],
                          texts |-> [i \in 1..n |->
                                       IF Len(entries) # 0 THEN entries[i].text ELSE ""],
                          metas |-> [i \in 1..n |-> None],
                          ids |-> [i \in 1..Min(n, Len(entries)) |-> Some(entries[i].id)]]]

\* The vector an entry carries inline: embedding_b64 when it is a non-empty
\* string (written as the bytes it encodes), else the embedding array.
InlineVector(e) ==
  IF TruthyBytes(Field(e, "embedding_b64")) THEN Some(Float32View(e.embedding_b64))
  ELSE IF "embedding" \in DOMAIN e
    THEN Some([j \in 1..Len(e.embedding) |-> IntToF32(e.embedding[j])])
    ELSE None

\* The condition with the manifest's flag read the other way round.
ShouldNormalizeWhenDeclared(reNormalize, normalize) == reNormalize \/ TruthyBool(normalize)

\* The condition under which fromManifest normalizes an entry's vector.
ShouldNormalize(reNormalize, normalize) == reNormalize \/ ~ TruthyBool(normalize)

\* The manifest contract PrecomputedVectorStore reads its parsed manifest by
\* (model is the model card): required fields present, a positive dim, a
\* non-empty entry list.  The schema under schema/ is a later one.
ParseManifestCard(raw) ==
  IF /\ {"version", "character", "model", "entries"} \subseteq DOMAIN raw
     /\ {"id", "dim", "normalize", "instruction", "mode"} \subseteq DOMAIN raw.model
     /\ raw.model.dim > 0
     /\ Len(raw.entries) >= 1
     /\ \A i \in 1..Len(raw.entries) : {"id", "type", "text"} \subseteq DOMAIN raw.entries[i]
    THEN [ok |-> TRUE, value |-> raw]
    ELSE Fail("ZodError")

\* fromManifest after its parse: entries without a vector are skipped, a vector
\* of another length than model.dim throws, kept vectors are normalized on
\* request or when the card says they are not normalized.
StoreOfParsed(parsed, reNormalize) ==
  LET entries == parsed.entries
      dim == Field(parsed.model, "dim")
      normalize == Field(parsed.model, "normalize")
      kept == SelectSeq([i \in 1..Len(entries) |-> i],
                        LAMBDA i : InlineVector(entries[i]) # None)
      vec(j) == InlineVector(entries[kept[j]])[1]
  IN  IF \E j \in 1..Len(kept) : Some(Len(vec(j))) # dim
        THEN Fail("Entry has dim, expected model.dim")
      ELSE IF Len(kept) = 0 THEN Fail("No vectors loaded from manifest entries.")
      ELSE [ok |-> TRUE,
            store |->
              [cls |-> "PrecomputedVectorStore",
               id |-> Field(parsed.model, "id"),
               dim |-> dim,
               normalize |-> normalize,
               vectors |-> [j \in 1..Len(kept) |->
                              IF ShouldNormalize(reNormalize, normalize)
                                THEN normalizeInPlace(VecOfFloats(vec(j)))
                                ELSE VecOfFloats(vec(j))],
               texts |-> [j \in 1..Len(kept) |-> entries[kept[j]].text],
               metas |-> [j \in 1..Len(kept) |-> Field(entries[kept[j]], "meta")],
               ids |-> [j \in 1..Len(kept) |-> Some(entries[kept[j]].id)]]]

\* PrecomputedVectorStore.fromManifest(manifest, { reNormalize }), with the
\* schema it parses by: "card" for the manifest contract above, "embed" for
\* InftManifestSchema.
fromManifest(manifest, reNormalize, schema) ==
  LET parsed == IF schema = "card" THEN ParseManifestCard(manifest)
                                   ELSE InftManifestSchemaParse(manifest)
  IN  IF ~ parsed.ok THEN Fail(parsed.error) ELSE StoreOfParsed(parsed.value, reNormalize)

\* size()
size(store) == Len(store.vectors)

\* ------------------------------------------------------------------- search

\* A search that never consults its filter.
FilterIgnored(filter, meta) == TRUE

\* A filter is undefined or the predicate (meta) => meta?.tag === tag.
FilterPasses(filter, meta) ==
  filter = None \/ (meta # None /\ meta[1].tag = filter[1])

\* The comparator with its operands exchanged: ascending scores.
CompareScoresAscending(a, b) ==
  IF ScoreLess(b.s, a.s) THEN 1 ELSE IF ScoreLess(a.s, b.s) THEN 0 - 1 ELSE 0

\* (a, b) => b.s - a.s, by sign: positive when b is to come before a.
CompareScores(a, b) ==
  IF ScoreLess(a.s, b.s) THEN 1 ELSE IF ScoreLess(b.s, a.s) THEN 0 - 1 ELSE 0

\* Array.prototype.sort is stable: x goes behind every element it does not
\* strictly precede.
RECURSIVE InsertSorted(_, _)
InsertSorted(sorted, x) ==
  IF sorted = << >> THEN << x >>
  ELSE IF CompareScores(Head(sorted), x) > 0 THEN << x >> \o sorted
  ELSE << Head(sorted) >> \o InsertSorted(Tail(sorted), x)

RECURSIVE SortScores(_)
SortScores(scores) ==
  IF scores = << >> THEN << >>
  ELSE InsertSorted(SortScores(SubSeq(scores, 1, Len(scores) - 1)), scores[Len(scores)])

\* A slice that keeps the whole array.
SliceAll(arr, end) == arr

\* Array.prototype.slice(0, end): a negative end counts from the end.
SliceTo(arr, end) ==
  SubSeq(arr, 1, IF end < 0 THEN Max(Len(arr) + end, 0) ELSE Min(end, Len(arr)))

\* search(queryVec, k, filter) of PrecomputedVectorStore and of the
\* ExternalVectorStore versions that keep metas.
search(store, queryVec, k, filter) ==
  LET q == [num |-> queryVec, den2 |-> 1]
      passing == SelectSeq([i \in 1..Len(store.vectors) |-> i],
                           LAMBDA i : FilterPasses(filter, store.metas[i]))
      scores == [j \in 1..Len(passing) |->
                   [i |-> passing[j], s |-> cosine(q, store.vectors[passing[j]])]]
      top == SliceTo(SortScores(scores), Min(k, Len(scores)))
  IN  [ok |-> TRUE,
       hits |-> [r \in 1..Len(top) |->
                   [id |-> store.ids[top[r].i],
                    score |-> top[r].s,
                    text |-> store.texts[top[r].i],
                    meta |-> store.metas[top[r].i]]]]

\* search(query, topK) of the ExternalVectorStore version that trims: the query
\* must have the store's dim, and is normalized when the store's vectors are
\* not; hits carry the index.
searchTrim(store, query, topK) ==
  IF Some(Len(query)) # store.dim THEN Fail("Query dim != store dim")
  ELSE LET q == IF ~ TruthyBool(store.normalize)
                  THEN normalizeInPlace([num |-> query, den2 |-> 1])
                  ELSE [num |-> query, den2 |-> 1]
           scores == [i \in 1..Len(store.vectors) |->
                        [i |-> i, s |-> cosine(q, store.vectors[i])]]
           idxs == SortScores(scores)
           K == Min(topK, Len(idxs))
       IN  [ok |-> TRUE,
            hits |-> [r \in 1..Max(K, 0) |->
                        [index |-> idxs[r].i - 1,
                         id |-> IF idxs[r].i <= Len(store.ids) THEN store.ids[idxs[r].i] ELSE None,
                         score |-> idxs[r].s,
                         text |-> store.texts[idxs[r].i]]]]

\* -------------------------------------------------------------------- state

VARIABLES
  srcVectors,   \* the list handed to encodeVectorsBlob
  srcQuant,     \* its quant argument
  srcFormat,    \* its format argument
  blob,         \* the buffer handed to the decoder
  cut,          \* bytes appended to (> 0) or dropped from (< 0) the encoder's output
  decoder,      \* which decodeVectorsBlob ran: "current", "legacy" or "none"
  decoded,      \* what it returned or threw
  phase,        \* "input", "encoded", "encodeFailed", "decoded"; "idle" outside the codec
  doc,          \* the manifest document the publisher wrote
  fetched,      \* what fetching doc.vectors_uri gives: bytes or an error
  manifest,     \* the manifest the consumer holds, and how it was obtained
  built,        \* the constructor that ran and the store or error it gave
  searched,     \* the search that ran on the store and what it returned
  call,         \* a call of a function on its own: its arguments and outcome
  service       \* the InftKnowledgeService: its fields and what its methods gave

codecVars == << srcVectors, srcQuant, srcFormat, blob, cut, decoder, decoded, phase >>
storeVars == << doc, fetched, manifest, built, searched >>

\* The store side while the codec runs alone.
StoreIdle ==
  /\ doc = << >>
  /\ fetched = Fail("none")
  /\ manifest = Fail("none")
  /\ built = None
  /\ searched = None

NoResult == [ok |-> FALSE, error |-> "none"]

CodecInit ==
  /\ call = << >>
  /\ service = << >>
  /\ srcVectors \in InputLists
  /\ srcQuant \in {QuantFp32, QuantFp16}
  /\ srcFormat \in {"v0", "v1"}
  /\ blob = << >>
  /\ cut = 0
  /\ decoder = "none"
  /\ decoded = NoResult
  /\ phase = "input"
  /\ StoreIdle

\* encodeVectorsBlob(srcVectors, srcQuant, srcFormat) returns its bytes.
Encode ==
  /\ phase = "input"
  /\ encodeVectorsBlob(srcVectors, srcQuant, srcFormat).ok
  /\ blob' = encodeVectorsBlob(srcVectors, srcQuant, srcFormat).bytes
  /\ phase' = "encoded"
  /\ UNCHANGED << srcVectors, srcQuant, srcFormat, cut, decoder, decoded, storeVars, call, service >>

\* encodeVectorsBlob throws: no bytes are produced.
EncodeFails ==
  /\ phase = "input"
  /\ ~encodeVectorsBlob(srcVectors, srcQuant, srcFormat).ok
  /\ decoded' = encodeVectorsBlob(srcVectors, srcQuant, srcFormat)
  /\ phase' = "encodeFailed"
  /\ UNCHANGED << srcVectors, srcQuant, srcFormat, blob, cut, decoder, storeVars, call, service >>

\* The buffer reaches the decoder short of its last n bytes.
Truncate ==
  /\ phase = "encoded"
  /\ cut = 0
  /\ \E n \in 1..MaxCut :
       /\ n <= Len(blob)
       /\ blob' = SubSeq(blob, 1, Len(blob) - n)
       /\ cut' = -n
  /\ UNCHANGED << srcVectors, srcQuant, srcFormat, decoder, decoded, phase, storeVars, call, service >>

\* The buffer reaches the decoder with n more bytes after the payload.
Extend ==
  /\ phase = "encoded"
  /\ cut = 0
  /\ \E n \in 1..MaxCut :
       /\ blob' = blob \o [i \in 1..n |-> 0]
       /\ cut' = n
  /\ UNCHANGED << srcVectors, srcQuant, srcFormat, decoder, decoded, phase, storeVars, call, service >>

\* decodeVectorsBlob(blob), the current decoder
Decode ==
  /\ phase = "encoded"
  /\ decoded' = decodeVectorsBlob(blob)
  /\ decoder' = "current"
  /\ phase' = "decoded"
  /\ UNCHANGED << srcVectors, srcQuant, srcFormat, blob, cut, storeVars, call, service >>

\* decodeVectorsBlob(blob), the older v0-only decoder
DecodeLegacy ==
  /\ phase = "encoded"
  /\ decoded' = decodeVectorsBlobLegacy(blob)
  /\ decoder' = "legacy"
  /\ phase' = "decoded"
  /\ UNCHANGED << srcVectors, srcQuant, srcFormat, blob, cut, storeVars, call, service >>

CodecNext == Encode \/ EncodeFails \/ Truncate \/ Extend \/ Decode \/ DecodeLegacy

vars == << codecVars, storeVars, call, service >>

SpecCodec == CodecInit /\ [][CodecNext]_vars

\* A writer that put another code in the header: "some writers incorrectly
\* used 2 for fp16 in v0".  The quant byte is at offset 12 of a v0 header, the
\* dtype byte at offset 5 of a v1 header.
MaxQuantByte == 3
QuantBytes == 0..MaxQuantByte

QuantByteIndex(format) == IF format = "v0" THEN 13 ELSE 6

Encoded == encodeVectorsBlob(srcVectors, srcQuant, srcFormat).bytes

RewriteQuantByte ==
  /\ phase = "encoded"
  /\ blob = Encoded
  /\ \E q \in QuantBytes :
       /\ q # blob[QuantByteIndex(srcFormat)]
       /\ blob' = [blob EXCEPT ![QuantByteIndex(srcFormat)] = q]
  /\ UNCHANGED << srcVectors, srcQuant, srcFormat, cut, decoder, decoded, phase, storeVars, call, service >>

QuantByteNext == Encode \/ EncodeFails \/ RewriteQuantByte \/ Decode \/ DecodeLegacy

SpecQuantByte == CodecInit /\ [][QuantByteNext]_vars

\* ------------------------------------------------------------ store inputs

MaxEntries == 4
MaxK == 5

\* The codec side while the stores run.
CodecIdle ==
  /\ srcVectors = << >>
  /\ srcQuant = QuantFp32
  /\ srcFormat = "v1"
  /\ blob = << >>
  /\ cut = 0
  /\ decoder = "none"
  /\ decoded = NoResult
  /\ phase = "idle"

\* count vectors of length dim with components 0, 1 and 2.
PatternVectors(count, dim) ==
  [i \in 1..count |-> [j \in 1..dim |-> IntToF32((i + j) % 3)]]

\* The buffer with the top bit of byte p flipped.
FlipByte(bytes, p) == [bytes EXCEPT ![p] = (@ + 128) % 256]

\* What the consumer's fetch of the published blob gives.
Fetch(packed, scenario) ==
  CASE scenario = "fetchError" -> Fail("fetchBytesSmart failed")
    [] scenario = "flipFirst" -> [ok |-> TRUE, bytes |-> FlipByte(packed, 1)]
    [] scenario = "flipLast" -> [ok |-> TRUE, bytes |-> FlipByte(packed, Len(packed))]
    [] OTHER -> [ok |-> TRUE, bytes |-> packed]

Scenarios == {"intact", "flipFirst", "flipLast", "fetchError", "noUri"}

MetaOf(i) == IF i % 5 = 0 THEN None ELSE Some([tag |-> IF i = 2 THEN "b" ELSE "a"])

\* A publisher packed the vectors of its knowledge base into a blob, wrote a
\* manifest for it, and the consumer holds that manifest in memory.
BuildInit ==
  /\ call = << >>
  /\ service = << >>
  /\ CodecIdle
  /\ \E shape \in {"card", "embed"}, mdim \in 1..MaxDim, normalize \in BOOLEAN,
        n \in 1..MaxEntries, declared \in BOOLEAN,
        bdim \in 1..MaxDim, bcount \in 1..MaxEntries,
        quant \in {QuantFp32, QuantFp16}, format \in {"v0", "v1"},
        scenario \in Scenarios :
       LET packed == encodeVectorsBlob(PatternVectors(bcount, bdim), quant, format).bytes
       IN  /\ doc = Document(shape, ModelCard(mdim, normalize),
                             [i \in 1..n |-> Entry(i, None, MetaOf(i))],
                             IF scenario = "noUri" THEN None ELSE Some("ipfs://vectors"),
                             IF declared THEN Some(sha256Hex(packed)) ELSE None)
           /\ fetched = Fetch(packed, scenario)
  /\ manifest = [ok |-> TRUE, value |-> doc, via |-> "memory"]
  /\ built = None
  /\ searched = None

\* ------------------------------------------------------------- store actions

\* The consumer reads the published document back through loadManifest.
LoadManifest ==
  /\ manifest.ok /\ manifest.via = "memory"
  /\ built = None
  /\ manifest' = loadManifest(doc) @@ [via |-> "loadManifest"]
  /\ UNCHANGED << doc, fetched, built, searched, codecVars, call, service >>

\* ExternalVectorStore.fromManifestWithExternalVectors(manifest), verifying
BuildExternal ==
  /\ manifest.ok
  /\ built = None
  /\ built' = Some([by |-> "verify", reNormalize |-> FALSE,
                    result |-> fromManifestWithExternalVectors(manifest.value, fetched)])
  /\ UNCHANGED << doc, fetched, manifest, searched, codecVars, call, service >>

\* ExternalVectorStore.fromManifestWithExternalVectors(manifest), over fetch
BuildExternalHttp ==
  /\ manifest.ok
  /\ built = None
  /\ built' = Some([by |-> "http", reNormalize |-> FALSE,
                    result |-> fromManifestWithExternalVectorsHttp(manifest.value, fetched)])
  /\ UNCHANGED << doc, fetched, manifest, searched, codecVars, call, service >>

\* ExternalVectorStore.fromManifestWithExternalVectors(manifest), trimming
BuildExternalTrim ==
  /\ manifest.ok
  /\ built = None
  /\ built' = Some([by |-> "trim", reNormalize |-> FALSE,
                    result |-> fromManifestWithExternalVectorsTrim(manifest.value, fetched)])
  /\ UNCHANGED << doc, fetched, manifest, searched, codecVars, call, service >>

BuildNext == LoadManifest \/ BuildExternal \/ BuildExternalHttp \/ BuildExternalTrim

SpecBuild == BuildInit /\ [][BuildNext]_vars

\* ------------------------------------------------------------- search model

\* The vectors a knowledge base is made of: a unit vector, a vector of norm 2
\* and the zero vector, of length MaxDim.
Pool ==
  { [j \in 1..MaxDim |-> IF j = 1 THEN 1 ELSE 0],
    [j \in 1..MaxDim |-> IF j = MaxDim THEN 2 ELSE 0],
    [j \in 1..MaxDim |-> 0] }

Queries ==
  { [j \in 1..MaxDim |-> 1],
    [j \in 1..MaxDim |-> IF j = 1 THEN 1 ELSE 0],
    [j \in 1..MaxDim |-> IF j = 1 THEN 0 - 1 ELSE IF j = MaxDim THEN 1 ELSE 0],
    << 1 >> }

Filters == {None, Some("a"), Some("b")}

\* A publisher wrote a manifest with the vectors inline and also packed them,
\* as fp32, into the blob vectors_uri names.
SearchInit ==
  /\ call = << >>
  /\ service = << >>
  /\ CodecIdle
  /\ \E shape \in {"card", "embed"}, normalize \in BOOLEAN, n \in 1..MaxEntries :
       \E vs \in [1..n -> Pool] :
         LET packed == encodeVectorsBlob([i \in 1..n |-> [j \in 1..MaxDim |-> IntToF32(vs[i][j])]],
                                         QuantFp32, "v1").bytes
         IN  /\ doc = Document(shape, ModelCard(MaxDim, normalize),
                               [i \in 1..n |-> Entry(i, Some(vs[i]), MetaOf(i))],
                               Some("ipfs://vectors"), Some(sha256Hex(packed)))
             /\ fetched = [ok |-> TRUE, bytes |-> packed]
  /\ manifest = [ok |-> TRUE, value |-> doc, via |-> "memory"]
  /\ built = None
  /\ searched = None

\* PrecomputedVectorStore.fromManifest(manifest, { reNormalize })
BuildInline ==
  /\ manifest.ok
  /\ built = None
  /\ \E reNormalize \in BOOLEAN, schema \in {"card", "embed"} :
       built' = Some([by |-> "inline", reNormalize |-> reNormalize, schema |-> schema,
                      result |-> fromManifest(manifest.value, reNormalize, schema)])
  /\ UNCHANGED << doc, fetched, manifest, searched, codecVars, call, service >>

\* store.search(query, k, filter) on a store that keeps metas
Search ==
  /\ built # None /\ built[1].result.ok /\ built[1].by # "trim"
  /\ searched = None
  /\ \E query \in Queries, k \in (0 - 1)..MaxK, filter \in Filters :
       searched' = Some([query |-> query, k |-> k, filter |-> filter,
                         result |-> search(built[1].result.store, query, k, filter)])
  /\ UNCHANGED << doc, fetched, manifest, built, codecVars, call, service >>

\* store.search(query, topK) on a store of the trimming version
SearchTrim ==
  /\ built # None /\ built[1].result.ok /\ built[1].by = "trim"
  /\ searched = None
  /\ \E query \in Queries, k \in (0 - 1)..MaxK :
       searched' = Some([query |-> query, k |-> k, filter |-> None,
                         result |-> searchTrim(built[1].result.store, query, k)])
  /\ UNCHANGED << doc, fetched, manifest, built, codecVars, call, service >>

SearchNext ==
  \/ LoadManifest \/ BuildInline \/ BuildExternal \/ BuildExternalHttp
  \/ BuildExternalTrim \/ Search \/ SearchTrim

SpecSearch == SearchInit /\ [][SearchNext]_vars

\* -------------------------------------------------------------- store reuse

\* What a caller does with a store after a search: it overwrites its query
\* array, assigns to the hit objects it was given, and searches again.  search
\* keeps no reference to the query and builds a new object for every hit, but
\* the meta of a hit is this.metas[i] itself, and in the external store
\* this.metas[i] is manifest.entries[i].meta itself: an assignment to a property
\* of hit.meta is an assignment to that one object.
ReuseInit ==
  /\ call = << >>
  /\ service = << >>
  /\ CodecIdle
  /\ \E normalize \in BOOLEAN, n \in 1..MaxCount :
       \E vs \in [1..n -> Pool] :
         LET packed == encodeVectorsBlob([i \in 1..n |-> [j \in 1..MaxDim |-> IntToF32(vs[i][j])]],
                                         QuantFp32, "v1").bytes
         IN  /\ doc = Document("card", ModelCard(MaxDim, normalize),
                               [i \in 1..n |-> Entry(i, Some(vs[i]), MetaOf(i))],
                               Some("ipfs://vectors"), Some(sha256Hex(packed)))
             /\ fetched = [ok |-> TRUE, bytes |-> packed]
  /\ manifest = [ok |-> TRUE, value |-> doc, via |-> "memory"]
  /\ built = None
  /\ searched = None

\* The index of the store record whose id the hit carries.
IndexOfHit(store, hit) == CHOOSE i \in 1..Len(store.ids) : store.ids[i] = hit.id

\* The hits as the caller holds them now.
HeldHits == IF "held" \in DOMAIN searched[1] THEN searched[1].held ELSE searched[1].result.hits

OtherTag(tag) == IF tag = "a" THEN "b" ELSE "a"

\* hit.meta.tag = t on a hit the caller holds
MutateHitMeta ==
  /\ searched # None /\ searched[1].result.ok
  /\ "again" \notin DOMAIN searched[1]
  /\ "held" \notin DOMAIN searched[1]
  /\ \E r \in 1..Len(searched[1].result.hits) :
       LET hit == searched[1].result.hits[r]
           store == built[1].result.store
           i == IndexOfHit(store, hit)
           changed == Some([tag |-> OtherTag(hit.meta[1].tag)])
       IN  /\ hit.meta # None
           /\ searched' = Some(searched[1] @@
                            [held |-> [searched[1].result.hits EXCEPT ![r].meta = changed]])
           /\ built' = Some([built[1] EXCEPT !.result.store.metas[i] = changed])
           /\ manifest' = IF built[1].by = "inline" THEN manifest
                          ELSE [manifest EXCEPT !.value.entries[i] =
                                  [k \in DOMAIN @ |-> IF k = "meta" THEN changed[1] ELSE @[k]]]
  /\ UNCHANGED << doc, fetched, codecVars, call, service >>

\* hit.meta = { tag: t } and hit.text = "": the hit object gets new fields
ReplaceHitFields ==
  /\ searched # None /\ searched[1].result.ok
  /\ "again" \notin DOMAIN searched[1]
  /\ "held" \notin DOMAIN searched[1]
  /\ \E r \in 1..Len(searched[1].result.hits), t \in {"a", "b"} :
       searched' = Some(searched[1] @@
                     [held |-> [searched[1].result.hits EXCEPT
                                  ![r].meta = Some([tag |-> t]), ![r].text = ""]])
  /\ UNCHANGED << doc, fetched, manifest, built, codecVars, call, service >>

\* queryVec.fill(0) after the search returned
MutateQuery ==
  /\ searched # None /\ searched[1].result.ok
  /\ "again" \notin DOMAIN searched[1]
  /\ "queryHeld" \notin DOMAIN searched[1]
  /\ searched' = Some(searched[1] @@
                   [queryHeld |-> [j \in 1..Len(searched[1].query) |-> 0]])
  /\ UNCHANGED << doc, fetched, manifest, built, codecVars, call, service >>

\* store.size() and store.search(query, k, filter) once more, with the
\* arguments of the first search
SearchAgain ==
  /\ searched # None /\ searched[1].result.ok
  /\ "again" \notin DOMAIN searched[1]
  /\ searched' = Some(searched[1] @@
                   [again |-> search(built[1].result.store, searched[1].query,
                                     searched[1].k, searched[1].filter),
                    sizeAgain |-> size(built[1].result.store)])
  /\ UNCHANGED << doc, fetched, manifest, built, codecVars, call, service >>

ReuseNext ==
  \/ BuildInline \/ BuildExternal \/ Search
  \/ MutateHitMeta \/ ReplaceHitFields \/ MutateQuery \/ SearchAgain

SpecReuse == ReuseInit /\ [][ReuseNext]_vars

\* ------------------------------------------------------------- inline model

\* float32ToBase64(vec), written as the bytes the string encodes: the
\* little-endian bytes of the floats.
float32ToBase64(floats) ==
  [k \in 1..(4 * Len(floats)) |-> F32Bytes(floats[((k - 1) \div 4) + 1])[((k - 1) % 4) + 1]]

\* The vector entry i carries as an array, and the one it carries as base64
\* when it carries both (another vector, so that the two can be told apart).
ArrayVector(i, len) == [j \in 1..len |-> (i + j) % 3]
OtherVector(i, len) == [j \in 1..len |-> ((i + j) % 3) + 1]

\* How an entry carries its vector: as an array, as base64, as both, not at
\* all, or as an array one element short of the declared dim.
Carries == {"array", "b64", "both", "none", "short"}

EntryCarrying(i, carry) ==
  LET base == Entry(i,
                    CASE carry \in {"array", "both"} -> Some(ArrayVector(i, MaxDim))
                      [] carry = "short" -> Some(ArrayVector(i, MaxDim - 1))
                      [] OTHER -> None,
                    MetaOf(i))
  IN  CASE carry = "b64" ->
             base @@ [embedding_b64 |->
                        float32ToBase64([j \in 1..MaxDim |-> IntToF32(ArrayVector(i, MaxDim)[j])])]
        [] carry = "both" ->
             base @@ [embedding_b64 |->
                        float32ToBase64([j \in 1..MaxDim |-> IntToF32(OtherVector(i, MaxDim)[j])])]
        [] OTHER -> base

\* A publisher wrote a manifest whose entries carry their vectors inline, each
\* in one of the ways above, with or without a vectors_uri next to them.
InlineInit ==
  /\ call = << >>
  /\ service = << >>
  /\ CodecIdle
  /\ \E shape \in {"card", "embed"}, normalize \in BOOLEAN, external \in BOOLEAN,
        n \in 1..MaxEntries :
       \E carry \in [1..n -> Carries] :
         doc = Document(shape, ModelCard(MaxDim, normalize),
                        [i \in 1..n |-> EntryCarrying(i, carry[i])],
                        IF external THEN Some("ipfs://vectors") ELSE None, None)
  /\ fetched = Fail("none")
  /\ manifest = [ok |-> TRUE, value |-> doc, via |-> "memory"]
  /\ built = None
  /\ searched = None

InlineNext == LoadManifest \/ BuildInline

SpecInline == InlineInit /\ [][InlineNext]_vars

\* --------------------------------------------------- encoder called alone

\* encodeVectorsBlob(vectors, quant) called without a format: the parameter of
\* the current encoder defaults to "v1", the older encoder has none.
encodeVectorsBlobDefault(encoder, vectors, quant) ==
  IF encoder = "current" THEN encodeVectorsBlob(vectors, quant, "v1")
  ELSE encodeVectorsBlobLegacy(vectors, quant)

EncodeCallInit ==
  /\ service = << >>
  /\ call \in {<< [fn |-> "encodeVectorsBlob", encoder |-> e, vectors |-> v,
                   quant |-> q, done |-> FALSE, result |-> NoResult] >> :
                 e \in {"current", "legacy"}, v \in InputLists,
                 q \in {QuantFp32, QuantFp16}}
  /\ CodecIdle
  /\ StoreIdle

EncodeDefault ==
  /\ call # << >>
  /\ ~ call[1].done
  /\ call' = << [call[1] EXCEPT
                   !.done = TRUE,
                   !.result = encodeVectorsBlobDefault(call[1].encoder, call[1].vectors,
                                                       call[1].quant)] >>
  /\ UNCHANGED << codecVars, storeVars, service >>

EncodeCallNext == EncodeDefault

SpecEncodeCall == EncodeCallInit /\ [][EncodeCallNext]_vars

\* ----------------------------------------------------------- model contract

\* ensureModelContract(manifest, embedder, opts).  Its manifest is a model card
\* whose id and dim may be absent (undefined), embedder is an EmbedderInfo
\* whose dim may be null; both absences are None here, and null !== undefined
\* as well as null !== n and n !== undefined are all true.
IdMismatch(card, embedder) ==
  /\ TruthyStr(embedder.id)
  /\ TruthyStr(card.id)
  /\ embedder.id[1] # card.id[1]

DimStrictlyDiffers(card, embedder) ==
  ~ (embedder.dim # None /\ card.dim # None /\ embedder.dim[1] = card.dim[1])

ensureModelContract(card, embedder, opts) ==
  IF IdMismatch(card, embedder)
    THEN Fail("Embedder model id mismatch")
  ELSE IF /\ ~ (TruthyBool(opts.allowDimNull) /\ embedder.dim = None)
          /\ DimStrictlyDiffers(card, embedder)
    THEN Fail("Embedder dim mismatch")
  ELSE [ok |-> TRUE]

ModelIds == {"bge-small", "e5-small"}

\* The model cards a caller holds: manifest.model of a manifest in memory, or
\* of a loaded one, which the schema has stripped of id and dim.
ContractCards ==
  [id : {None, Some("")} \cup {Some(i) : i \in ModelIds},
   dim : {None} \cup {Some(d) : d \in 1..MaxDim}]

\* What an embedder reports: EmbedderInfo { id: string; dim: number | null }.
EmbedderInfos ==
  [id : {Some("")} \cup {Some(i) : i \in ModelIds},
   dim : {None} \cup {Some(d) : d \in 1..MaxDim}]

ContractOpts == [allowDimNull : {None, Some(TRUE), Some(FALSE)}]

ContractInit ==
  /\ service = << >>
  /\ call \in {<< [fn |-> "ensureModelContract", manifest |-> c, embedder |-> e,
                   opts |-> o, done |-> FALSE, result |-> NoResult] >> :
                 c \in ContractCards, e \in EmbedderInfos, o \in ContractOpts}
  /\ CodecIdle
  /\ StoreIdle

EnsureModelContract ==
  /\ call # << >>
  /\ ~ call[1].done
  /\ call' = << [call[1] EXCEPT
                   !.done = TRUE,
                   !.result = ensureModelContract(call[1].manifest, call[1].embedder,
                                                  call[1].opts)] >>
  /\ UNCHANGED << codecVars, storeVars, service >>

ContractNext == EnsureModelContract

SpecContract == ContractInit /\ [][ContractNext]_vars

\* --------------------------------------------------------- knowledge service

MaxLoads == 2

\* What is published under the uris a user asks the agent to load: a manifest
\* document (none when the uri cannot be fetched) and what fetching its
\* vectors_uri gives.  "ipfs://wrongdim" declares one more dimension than the
\* embedding model has.
Uris == {"ipfs://kb", "ipfs://kb2", "ipfs://missing", "ipfs://noblob", "ipfs://wrongdim"}

SiteVectors(uri) == IF uri = "ipfs://kb2" THEN PatternVectors(1, MaxDim) ELSE PatternVectors(2, MaxDim)

SiteDoc(uri) ==
  IF uri = "ipfs://missing" THEN None
  ELSE Some(Document("embed",
                     ModelCard(IF uri = "ipfs://wrongdim" THEN MaxDim + 1 ELSE MaxDim, TRUE),
                     IF uri = "ipfs://kb2" THEN << Entry(3, None, MetaOf(3)) >>
                     ELSE << Entry(1, None, MetaOf(1)), Entry(2, None, MetaOf(2)) >>,
                     Some("ipfs://vectors"), None))

SiteBlob(uri) ==
  IF uri = "ipfs://noblob" THEN Fail("fetch failed")
  ELSE [ok |-> TRUE, bytes |-> encodeVectorsBlob(SiteVectors(uri), QuantFp32, "v1").bytes]

\* new LocalEmbedder(process.env.MODEL_ID || manifest.e_model.id).info(): the id
\* it was given and the dimension of what the model returns.
EmbedderInfoOf(env, e_model) ==
  [id |-> IF TruthyStr(env) THEN env ELSE Field(e_model, "id"), dim |-> Some(MaxDim)]

\* The fields of a new InftKnowledgeService.
ServiceFields == [manifest |-> None, store |-> None, embedder |-> None]

\* InftKnowledgeService.loadManifest(uri): the fields are assigned one after the
\* other, and whatever throws leaves the earlier assignments in place.
ServiceLoadOutcome(fields, uri, env) ==
  LET m == IF SiteDoc(uri) = None THEN Fail("Failed to load manifest")
           ELSE loadManifest(SiteDoc(uri)[1])
  IN  IF ~ m.ok THEN [fields |-> fields, result |-> Fail(m.error)]
      ELSE
        LET f1 == [fields EXCEPT !.manifest = Some(m.value)]
            st == fromManifestWithExternalVectorsTrim(m.value, SiteBlob(uri))
        IN  IF ~ st.ok THEN [fields |-> f1, result |-> Fail(st.error)]
            ELSE
              LET info == EmbedderInfoOf(env, m.value.e_model)
                  f3 == [f1 EXCEPT !.store = Some(st.store), !.embedder = Some(info)]
                  c == ensureModelContract([id |-> Field(m.value.e_model, "id"),
                                            dim |-> Field(m.value.e_model, "dim")],
                                           info, [allowDimNull |-> None])
              IN  [fields |-> f3, result |-> c]

\* The unit vectors an embedder of MaxDim dimensions returns for a query text.
EmbeddedQueries ==
  { [j \in 1..MaxDim |-> IF j = p THEN sgn ELSE 0] : p \in 1..MaxDim, sgn \in {1, 0 - 1} }

\* InftKnowledgeService.search(query, k)
ServiceSearchOutcome(fields, q, k) ==
  IF fields.store = None \/ fields.embedder = None \/ fields.manifest = None
    THEN Fail("InftKnowledgeService not initialized. Call loadManifest(uri) first.")
    ELSE searchTrim(fields.store[1], q, k)

ServiceInit ==
  /\ call = << >>
  /\ CodecIdle
  /\ StoreIdle
  /\ \E env \in {None, Some("e5-small")} :
       service = << [env |-> env, fields |-> ServiceFields, loads |-> 0, loaded |-> None,
                     last |-> [method |-> "start", result |-> [ok |-> TRUE]]] >>

\* inftLoadAction.handler: svc.loadManifest(uri)
ServiceLoadManifest ==
  /\ service # << >>
  /\ service[1].loads < MaxLoads
  /\ \E uri \in Uris :
       LET out == ServiceLoadOutcome(service[1].fields, uri, service[1].env)
       IN  service' = << [service[1] EXCEPT
                            !.fields = out.fields,
                            !.loads = @ + 1,
                            !.loaded = IF out.result.ok THEN Some(uri) ELSE @,
                            !.last = [method |-> "loadManifest", uri |-> uri,
                                      result |-> out.result]] >>
  /\ UNCHANGED << codecVars, storeVars, call >>

\* svc.search(query, k)
ServiceSearch ==
  /\ service # << >>
  /\ service[1].last.method # "search"
  /\ \E q \in EmbeddedQueries, k \in 1..MaxCount :
       service' = << [service[1] EXCEPT
                        !.last = [method |-> "search", query |-> q, k |-> k,
                                  result |-> ServiceSearchOutcome(service[1].fields, q, k)]] >>
  /\ UNCHANGED << codecVars, storeVars, call >>

ServiceNext == ServiceLoadManifest \/ ServiceSearch

SpecService == ServiceInit /\ [][ServiceNext]_vars

\* ------------------------------------------- knowledge service, concurrent

\* Calls of the service's async methods run interleaved: each runs alone from
\* one await to the next.  Two inftLoadAction handlers load different
\* manifests while inftContextProvider.get searches; manifests, stores and
\* embedders are written as the uri of the manifest they come from.
LoadTasks == {"ipfs://kb", "ipfs://kb2"}

\* e_model.id of the manifest published under the uri
ModelIdOf(uri) == IF uri = "ipfs://kb2" THEN "e5-small" ELSE "bge-small"

AsyncInit ==
  /\ call = << >>
  /\ CodecIdle
  /\ StoreIdle
  /\ \E env \in {None, Some("bge-small")} :
       service = << [env |-> env, fields |-> ServiceFields,
                     load |-> [t \in LoadTasks |-> [pc |-> "idle", info |-> None]],
                     find |-> [pc |-> "idle", embedder |-> None, result |-> None]] >>

\* svc.loadManifest(uri) is called and waits in 'await loadManifest(uri)'
AsyncLoadCalled(t) ==
  /\ service[1].load[t].pc = "idle"
  /\ service' = << [service[1] EXCEPT !.load[t].pc = "loading"] >>
  /\ UNCHANGED << codecVars, storeVars, call >>

\* this.manifest = <the manifest>; fromManifestWithExternalVectors(this.manifest)
\* is called and awaited
AsyncManifestLoaded(t) ==
  /\ service[1].load[t].pc = "loading"
  /\ service' = << [service[1] EXCEPT !.load[t].pc = "building",
                                      !.fields.manifest = Some(t)] >>
  /\ UNCHANGED << codecVars, storeVars, call >>

\* this.store = <the store>; this.embedder = new LocalEmbedder(MODEL_ID ||
\* this.manifest.e_model.id); this.embedder.info() is called and awaited
AsyncStoreBuilt(t) ==
  /\ service[1].load[t].pc = "building"
  /\ LET id == IF TruthyStr(service[1].env) THEN service[1].env[1]
               ELSE ModelIdOf(service[1].fields.manifest[1])
         embedder == [of |-> service[1].fields.manifest[1], id |-> id]
     IN  service' = << [service[1] EXCEPT !.load[t].pc = "probing",
                                          !.load[t].info = Some(id),
                                          !.fields.store = Some(t),
                                          !.fields.embedder = Some(embedder)] >>
  /\ UNCHANGED << codecVars, storeVars, call >>

\* ensureModelContract(this.manifest.e_model, info); the call returns or throws
AsyncContractChecked(t) ==
  /\ service[1].load[t].pc = "probing"
  /\ service' = << [service[1] EXCEPT
                      !.load[t].pc =
                        IF service[1].load[t].info[1] = ModelIdOf(service[1].fields.manifest[1])
                          THEN "done" ELSE "failed"] >>
  /\ UNCHANGED << codecVars, storeVars, call >>

\* svc.search(query, k) is called: it throws when a field is null, else calls
\* this.embedder.embed and awaits it
AsyncSearchCalled ==
  /\ service[1].find.pc = "idle"
  /\ service' = << [service[1] EXCEPT
                      !.find.pc = IF \E f \in DOMAIN ServiceFields : service[1].fields[f] = None
                                    THEN "failed" ELSE "embedding",
                      !.find.embedder = service[1].fields.embedder] >>
  /\ UNCHANGED << codecVars, storeVars, call >>

\* normalizeInPlace(q); return this.store.search(q, k)
AsyncSearched ==
  /\ service[1].find.pc = "embedding"
  /\ service' = << [service[1] EXCEPT
                      !.find.pc = "done",
                      !.find.result = Some([store |-> service[1].fields.store[1],
                                            embedder |-> service[1].find.embedder[1]])] >>
  /\ UNCHANGED << codecVars, storeVars, call >>

AsyncNext ==
  \/ \E t \in LoadTasks : AsyncLoadCalled(t)
  \/ \E t \in LoadTasks : AsyncManifestLoaded(t)
  \/ \E t \in LoadTasks : AsyncStoreBuilt(t)
  \/ \E t \in LoadTasks : AsyncContractChecked(t)
  \/ AsyncSearchCalled
  \/ AsyncSearched

SpecAsync == AsyncInit /\ [][AsyncNext]_vars

\* ------------------------------------------------------------ ledger funding
\* Amounts of A0GI are counted in fifths of 0.000001, so that toFixed(6) has
\* something to round and never meets a tie. A JS number is << v >>, NaN << >>.
PerMicro == 5
MaxWallet == 30

NotANumber == << >>
Num(v) == << v >>
IsNum(x) == x # NotANumber

\* +x.toFixed(6): the nearest multiple of 0.000001
toFixed6(x) ==
  IF ~ IsNum(x) THEN NotANumber
  ELSE IF x[1] >= 0
    THEN Num(((2 * x[1] + PerMicro) \div (2 * PerMicro)) * PerMicro)
    ELSE Num(0 - (((2 * (0 - x[1]) + PerMicro) \div (2 * PerMicro)) * PerMicro))

MathMax(a, b) == IF IsNum(a) /\ IsNum(b) THEN Num(Max(a[1], b[1])) ELSE NotANumber
MathMin(a, b) == IF IsNum(a) /\ IsNum(b) THEN Num(Min(a[1], b[1])) ELSE NotANumber
Minus(a, b) == IF IsNum(a) /\ IsNum(b) THEN Num(a[1] - b[1]) ELSE NotANumber
\* a <= b and a >= b of JS: false when either side is NaN
LessEq(a, b) == IsNum(a) /\ IsNum(b) /\ a[1] <= b[1]
GreaterEq(a, b) == IsNum(a) /\ IsNum(b) /\ a[1] >= b[1]

Funded(calls) == [calls |-> calls, ok |-> TRUE, error |-> "none"]
FundingThrew(calls, e) == [calls |-> calls, ok |-> FALSE, error |-> e]

\* const deposit = async (amount) => { ... }: the calls it makes and whether
\* broker.ledger.depositFund threw
deposit(amount, depositFails) ==
  LET amt == MathMax(Num(0), toFixed6(amount)) IN
    IF LessEq(amt, Num(0)) THEN [calls |-> << >>, threw |-> FALSE]
    ELSE [calls |-> << [op |-> "depositFund", amount |-> amt] >>, threw |-> depositFails]

\* ledger: [exists, readable, balance]; the broker refuses addLedger when
\* broker.addFails and depositFund when broker.depositFails
ensureFundedLedger(broker, walletBal, min, gasReserve) ==
  LET target == min
      reserve == MathMax(Num(0), gasReserve)
      available == MathMax(Num(0), toFixed6(Minus(Num(walletBal), reserve)))
      current == IF broker.ledger.exists /\ broker.ledger.readable
                   THEN Some(Num(broker.ledger.balance)) ELSE None
  IN
    IF ~ IsNum(target) \/ LessEq(target, Num(0))
      THEN FundingThrew(<< >>, "invalid target amount")
    ELSE IF current # None
      THEN IF GreaterEq(current[1], target) THEN Funded(<< >>)
           ELSE LET need == MathMax(Num(0), toFixed6(Minus(target, current[1]))) IN
             IF LessEq(available, Num(0)) THEN Funded(<< >>)
             ELSE LET d == deposit(MathMin(need, available), broker.depositFails) IN
               IF d.threw THEN FundingThrew(d.calls, "depositFund") ELSE Funded(d.calls)
    ELSE IF LessEq(available, Num(0))
      THEN FundingThrew(<< >>, "Insufficient wallet balance to create ledger")
    ELSE
      LET init == MathMin(target, available)
          add == << [op |-> "addLedger", amount |-> toFixed6(init)] >>
      IN
        IF ~ broker.addFails THEN Funded(add)
        ELSE LET d == deposit(init, broker.depositFails) IN
          IF d.threw THEN FundingThrew(add \o d.calls, "addLedger")
          ELSE Funded(add \o d.calls)

Targets == {NotANumber, Num(0), Num(10), Num(12), Num(20)}
GasReserves == {NotANumber, Num(0 - 5), Num(0), Num(5), Num(10)}
Ledgers ==
  {[exists |-> FALSE, readable |-> FALSE, balance |-> 0]}
    \cup [exists : {TRUE}, readable : BOOLEAN, balance : {0, 5, 10, 20}]
\* adding a ledger that exists fails; one that is missing may still fail
Brokers ==
  {b \in [ledger : Ledgers, addFails : BOOLEAN, depositFails : BOOLEAN] :
     b.ledger.exists => b.addFails}

LedgerInit ==
  /\ service = << >>
  /\ call \in {<< [fn |-> "ensureFundedLedger", broker |-> b, walletBal |-> w,
                   min |-> t, gasReserve |-> g, done |-> FALSE,
                   result |-> Funded(<< >>)] >> :
                 b \in Brokers, w \in 0..MaxWallet, t \in Targets, g \in GasReserves}
  /\ CodecIdle
  /\ StoreIdle

EnsureFundedLedger ==
  /\ call # << >>
  /\ ~ call[1].done
  /\ call' = << [call[1] EXCEPT
                   !.done = TRUE,
                   !.result = ensureFundedLedger(call[1].broker, call[1].walletBal,
                                                 call[1].min, call[1].gasReserve)] >>
  /\ UNCHANGED << codecVars, storeVars, service >>

LedgerNext == EnsureFundedLedger

SpecLedger == LedgerInit /\ [][LedgerNext]_vars

\* --------------------------------------------------------- fp16 round trip
\* The 16-bit patterns of finite halves: every sign, exponent field 0..30 and
\* fraction field.
FiniteHalves == {s * 32768 + e * 1024 + f : s \in 0..1, e \in 0..30, f \in 0..1023}

HalfInit ==
  /\ service = << >>
  /\ call \in {<< [fn |-> "fp16RoundTrip", src |-> << h >>, done |-> FALSE,
                   floats |-> << >>, result |-> << >>] >> : h \in FiniteHalves}
  /\ CodecIdle
  /\ StoreIdle

\* float32ToFp16Array(fp16ToFloat32Array(src))
Fp16RoundTrip ==
  /\ call # << >>
  /\ ~ call[1].done
  /\ LET floats == fp16ToFloat32Array(call[1].src) IN
       call' = << [call[1] EXCEPT
                     !.done = TRUE,
                     !.floats = floats,
                     !.result = float32ToFp16Array(floats)] >>
  /\ UNCHANGED << codecVars, storeVars, service >>

HalfNext == Fp16RoundTrip

SpecHalf == HalfInit /\ [][HalfNext]_vars

\* ------------------------------------------------------------- ipfs gateway
\* A string is the sequence of its pieces: a scheme or origin, "/" characters,
\* path segments, quote characters. Concatenation is \o.
IpfsSegment == << "/", "ipfs", "/" >>
DefaultGateway == << "https://ipfs.io" >>
DefaultGatewayIpfs == << "https://ipfs.io", "/", "ipfs", "/" >>

\* s.replace(/\/+$/, "")
RECURSIVE StripTrailingSlashes(_)
StripTrailingSlashes(s) ==
  IF s # << >> /\ s[Len(s)] = "/"
    THEN StripTrailingSlashes(SubSeq(s, 1, Len(s) - 1))
    ELSE s

\* a || b || ... || fallback over optional strings: undefined and "" are falsy
RECURSIVE FirstTruthy(_, _)
FirstTruthy(options, fallback) ==
  IF options = << >> THEN fallback
  ELSE IF options[1] # None /\ options[1][1] # << >> THEN options[1][1]
  ELSE FirstTruthy(Tail(options), fallback)

\* /^ipfs:\/\//i.test(u)
HasIpfsScheme(u) == u # << >> /\ u[1] \in {"ipfs://", "IPFS://"}

\* /^\/?ipfs\//i.test(u)
HasIpfsPath(u) ==
  \/ Len(u) >= 2 /\ u[1] \in {"ipfs", "IPFS"} /\ u[2] = "/"
  \/ Len(u) >= 3 /\ u[1] = "/" /\ u[2] \in {"ipfs", "IPFS"} /\ u[3] = "/"

Cids == {"QmKb", "bafyKb"}
looksLikeCid(u) == Len(u) = 1 /\ u[1] \in Cids

\* (s ?? "").trim().replace(/^['"]+|['"]+$/g, "")
RECURSIVE dequote(_)
dequote(s) ==
  IF s # << >> /\ s[1] \in {"'", "\""} THEN dequote(Tail(s))
  ELSE IF s # << >> /\ s[Len(s)] \in {"'", "\""} THEN dequote(SubSeq(s, 1, Len(s) - 1))
  ELSE s

\* ipfsToHttp of src/utils/uri.ts
ipfsToHttp(ipfsUri, gateway, env) ==
  LET gw == StripTrailingSlashes(
              FirstTruthy(<< gateway, env.PINATA_GATEWAY, env.IPFS_GATEWAY >>,
                          DefaultGatewayIpfs))
      path == IF HasIpfsScheme(ipfsUri) THEN Tail(ipfsUri) ELSE ipfsUri
  IN  gw \o << "/" >> \o path

\* ipfsToHttp of the version with Pinata gateway normalization
ipfsToHttpPinata(ipfsLike, gateway, env) ==
  LET base == StripTrailingSlashes(
                FirstTruthy(<< gateway, env.PINATA_GATEWAY >>, DefaultGateway))
  IN  IF HasIpfsScheme(ipfsLike) THEN base \o IpfsSegment \o Tail(ipfsLike)
      ELSE IF HasIpfsPath(ipfsLike)
        THEN base \o IpfsSegment
               \o SubSeq(ipfsLike, IF ipfsLike[1] = "/" THEN 4 ELSE 3, Len(ipfsLike))
      ELSE IF looksLikeCid(ipfsLike) THEN base \o IpfsSegment \o ipfsLike
      ELSE ipfsLike

\* fetchBytesSmart up to its fetch: the URL it requests for an ipfs source,
\* nothing when the source goes to the http or file branch
fetchBytesSmart(version, uriOrPath, gateway, env) ==
  LET src == dequote(uriOrPath) IN
    IF version = "pinata"
      THEN IF HasIpfsScheme(src) \/ HasIpfsPath(src) \/ looksLikeCid(src)
             THEN Some(ipfsToHttpPinata(src, gateway, env)) ELSE None
      ELSE IF HasIpfsScheme(src) THEN Some(ipfsToHttp(src, gateway, env)) ELSE None

GatewayOrigins == {"https://ipfs.io", "https://gw.mypinata.cloud"}
GatewayTails == {<< >>, << "/" >>, << "/", "ipfs" >>, << "/", "ipfs", "/" >>}
GatewayValues == {<< o >> \o t : o \in GatewayOrigins, t \in GatewayTails}
\* an argument or environment variable: undefined, "" or a gateway base
GatewayOptions == {None, Some(<< >>)} \cup {Some(g) : g \in GatewayValues}
GatewayEnvs ==
  [PINATA_GATEWAY : {None} \cup {Some(<< "https://gw.mypinata.cloud" >> \o t) : t \in GatewayTails},
   IPFS_GATEWAY : {None, Some(<< "https://dweb.link", "/", "ipfs", "/" >>)}]
IpfsPaths == {<< c >> : c \in Cids} \cup {<< c, "/", "vectors.bin" >> : c \in Cids}
IpfsUris == {<< scheme >> \o p : scheme \in {"ipfs://", "IPFS://"}, p \in IpfsPaths}
\* what the callers hand to fetchBytesSmart: an ipfs:// URI, possibly quoted,
\* a gateway path, a bare CID or an http URL
FetchSources ==
  IpfsUris \cup {<< "'" >> \o u \o << "'" >> : u \in IpfsUris}
    \cup {<< "/", "ipfs", "/", "QmKb" >>, << "QmKb" >>,
          << "https://ipfs.io", "/", "ipfs", "/", "QmKb" >>}

GatewayInit ==
  /\ service = << >>
  /\ call \in {<< [fn |-> "fetchBytesSmart", version |-> v, uriOrPath |-> u,
                   gateway |-> g, env |-> e, done |-> FALSE, url |-> None] >> :
                 v \in {"pinata", "uri"}, u \in FetchSources,
                 g \in GatewayOptions, e \in GatewayEnvs}
  /\ CodecIdle
  /\ StoreIdle

FetchBytesSmart ==
  /\ call # << >>
  /\ ~ call[1].done
  /\ call' = << [call[1] EXCEPT
                   !.done = TRUE,
                   !.url = fetchBytesSmart(call[1].version, call[1].uriOrPath,
                                           call[1].gateway, call[1].env)] >>
  /\ UNCHANGED << codecVars, storeVars, service >>

GatewayNext == FetchBytesSmart

SpecGateway == GatewayInit /\ [][GatewayNext]_vars

\* ------------------------------------------------------------ codec claims

\* srcVectors is a non-empty list of vectors of one length.
ValidInput ==
  /\ Len(srcVectors) > 0
  /\ \A i \in 1..Len(srcVectors) : Len(srcVectors[i]) = Len(srcVectors[1])

\* The decoder read what the encoder of its own version writes when called with
\* two arguments: v1 for the current codec, v0 for the older one.
MatchedCodec ==
  \/ decoder = "current" /\ srcFormat = "v1"
  \/ decoder = "legacy" /\ srcFormat = "v0"

RoundTripped == phase = "decoded" /\ cut = 0 /\ ValidInput

\* C1: decoding the fp32 encoding of a non-empty list of equal-length vectors
\* returns the same vectors, bit for bit and in the same order.
C1_Fp32RoundTrip ==
  (RoundTripped /\ MatchedCodec /\ srcQuant = QuantFp32)
    => (decoded.ok /\ decoded.vectors = srcVectors)

\* C1 witness: two different two-dimensional vectors came back through fp32.
C1_Witness ==
  /\ RoundTripped /\ decoder = "current" /\ srcFormat = "v1" /\ srcQuant = QuantFp32
  /\ Len(srcVectors) = 2 /\ Len(srcVectors[1]) = 2
  /\ srcVectors[1] # srcVectors[2]
  /\ srcVectors[1][1] # srcVectors[1][2]
  /\ decoded.ok /\ decoded.vectors = srcVectors

HeaderSizeOf(header) == IF header.version # 0 THEN 16 ELSE 13
BytesPerElement(quant) == IF quant = 0 THEN 4 ELSE 2

\* C7: a decode that succeeds had a payload of exactly count * dim *
\* bytesPerElement bytes, and returns count vectors of dim elements each; every
\* other buffer with valid magic is rejected.
C7_TruncatedRejected ==
  (phase = "decoded" /\ MatchedCodec /\ decoded.ok)
    => /\ Len(blob) - HeaderSizeOf(decoded.header)
            = decoded.header.count * decoded.header.dim
                * BytesPerElement(decoded.header.quant)
       /\ Len(decoded.vectors) = decoded.header.count
       /\ \A i \in 1..Len(decoded.vectors) :
            Len(decoded.vectors[i]) = decoded.header.dim

\* C8: the header decoded from the encoding of (v, q) has dim = v[0].length,
\* count = v.length and quant = q, for q fp32 and fp16.
C8_HeaderRoundTrip ==
  (RoundTripped /\ MatchedCodec)
    => /\ decoded.ok
       /\ decoded.header.dim = Len(srcVectors[1])
       /\ decoded.header.count = Len(srcVectors)
       /\ decoded.header.quant = srcQuant

\* C8 witness: an fp16 blob of two vectors of different dim and count decoded.
C8_Witness ==
  /\ RoundTripped /\ decoder = "current" /\ srcFormat = "v1" /\ srcQuant = QuantFp16
  /\ Len(srcVectors) = 2 /\ Len(srcVectors[1]) = 1
  /\ decoded.ok
  /\ decoded.header = [dim |-> 1, count |-> 2, quant |-> QuantFp16, version |-> 1]

\* What the current decoder returns for the v1 encoding of the input.
DecodedFromV1 == decodeVectorsBlob(encodeVectorsBlob(srcVectors, srcQuant, "v1").bytes)

\* The decoder returned for the blob it read what it returns for the v1 encoding
\* of the same input, and took a v0 blob for v0 and a v1 blob for v1.
SniffFaithful ==
  /\ decoded.ok
  /\ decoded.header.dim = DecodedFromV1.header.dim
  /\ decoded.header.count = DecodedFromV1.header.count
  /\ decoded.header.quant = DecodedFromV1.header.quant
  /\ decoded.vectors = DecodedFromV1.vectors
  /\ (srcFormat = "v0") = (decoded.header.version = 0)

\* C9 as claimed: for every input and quantization the v0 encoding decodes to
\* the dim, count, quant and vectors of the v1 encoding, and no blob is taken
\* for the other layout.
C9_SniffFaithful ==
  (RoundTripped /\ decoder = "current") => SniffFaithful

\* The dimensions whose little-endian bytes at offsets 4..7 are a version in
\* 1..10, a dtype of 1 or 2 and a zero pad: 257..266 and 513..522.
V1Lookalike(dim) ==
  /\ dim % 256 \in 1..10
  /\ dim \div 256 \in {1, 2}

\* C9 amended: the same, for every input whose dimension is not one of
\* 257..266 and 513..522.
C9_SniffFaithfulOtherDims ==
  (RoundTripped /\ decoder = "current" /\ ~V1Lookalike(Len(srcVectors[1])))
    => SniffFaithful

\* C9 witness: a v0 blob of dimension 267 was read as v0 and decoded to the
\* input's vectors.
C9_Witness ==
  /\ RoundTripped /\ decoder = "current" /\ srcFormat = "v0" /\ srcQuant = QuantFp32
  /\ Len(srcVectors[1]) = 267
  /\ decoded.ok /\ decoded.header.version = 0
  /\ decoded.vectors = srcVectors

\* ------------------------------------------------------------ store claims

\* An external constructor ran on bytes that were fetched.
BuiltExternally ==
  built # None /\ built[1].by # "inline" /\ manifest.ok /\ fetched.ok

\* The model card the manifest declares its vectors by.
ModelCardOf(m) == IF "e_model" \in DOMAIN m THEN m.e_model ELSE m.model

\* The fetched bytes do not have the checksum the manifest declares.
ChecksumDiffers(m) ==
  /\ ExpectedChecksum(m) # None
  /\ sha256Hex(fetched.bytes) # ExpectedChecksum(m)[1]

\* C3: when the manifest declares a checksum and the SHA-256 of the fetched
\* bytes differs from it, external construction (the verifying version and the
\* version over fetch) returns no store.
C3_ChecksumEnforced ==
  (BuiltExternally /\ built[1].by \in {"verify", "http"} /\ ChecksumDiffers(manifest.value))
    => ~ built[1].result.ok

\* C4: a vectors_checksum declared in the JSON document is still in the manifest
\* loadManifest returns, and the verifying constructor rejects, as a checksum
\* mismatch, fetched bytes with another SHA-256 than the document declares.
C4_ChecksumSurvivesLoad ==
  (manifest.ok /\ manifest.via = "loadManifest" /\ "vectors_checksum" \in DOMAIN doc)
    => /\ Field(manifest.value, "vectors_checksum") = Some(doc.vectors_checksum)
       /\ (BuiltExternally /\ built[1].by = "verify"
             /\ sha256Hex(fetched.bytes) # doc.vectors_checksum)
            => (~ built[1].result.ok /\ built[1].result.error = "Vectors checksum mismatch")

\* C5: every store external construction returns has as many vectors as the
\* manifest has entries; a decoded count that differs from the entry count
\* gives no store.
C5_CountEnforced ==
  (BuiltExternally /\ built[1].result.ok)
    => /\ size(built[1].result.store) = Len(manifest.value.entries)
       /\ Len(decodeVectorsBlob(fetched.bytes).vectors) = Len(manifest.value.entries)

\* C6: external construction returns no store when the dim of the decoded
\* header differs from the dim the manifest's model card declares.
C6_DimEnforced ==
  (BuiltExternally /\ built[1].result.ok)
    => decodeVectorsBlob(fetched.bytes).header.dim = ModelCardOf(manifest.value).dim

\* A search returned hits.
Searched == searched # None /\ searched[1].result.ok

\* The score search gives record i of the store for the query.
ScoreOf(store, query, i) ==
  IF store.cls = "ExternalVectorStore(trim)" /\ ~ TruthyBool(store.normalize)
    THEN cosine(normalizeInPlace([num |-> query, den2 |-> 1]), store.vectors[i])
    ELSE cosine([num |-> query, den2 |-> 1], store.vectors[i])

\* The records the filter lets through.
Eligible(store, filter) ==
  {i \in 1..Len(store.vectors) : FilterPasses(filter, store.metas[i])}

\* The record a hit was made from: by its index when the hit carries one, else
\* by its id.
RecordOf(store, hit) ==
  IF "index" \in DOMAIN hit THEN hit.index + 1
  ELSE CHOOSE i \in 1..Len(store.ids) : store.ids[i] = hit.id

\* Record i ranks before record j: a higher score, or the same score and an
\* earlier insertion.
RanksBefore(store, query, i, j) ==
  \/ ScoreLess(ScoreOf(store, query, j), ScoreOf(store, query, i))
  \/ /\ ~ ScoreLess(ScoreOf(store, query, i), ScoreOf(store, query, j))
     /\ i < j

\* C2: with k >= 1 the hits are the first min(k, E) eligible records in
\* descending score order, equal scores in insertion order: every hit is an
\* eligible record with its score and text, each hit ranks before the next, and
\* every eligible record left out ranks behind every hit.
C2_TopKOrdered ==
  (Searched /\ searched[1].k >= 1)
    => LET store == built[1].result.store
           query == searched[1].query
           hits == searched[1].result.hits
           E == Eligible(store, searched[1].filter)
           rec(r) == RecordOf(store, hits[r])
       IN  /\ Len(hits) = Min(searched[1].k, Cardinality(E))
           /\ \A r \in 1..Len(hits) :
                /\ rec(r) \in E
                /\ hits[r].score = ScoreOf(store, query, rec(r))
                /\ hits[r].text = store.texts[rec(r)]
           /\ \A r \in 1..Len(hits), t \in 1..Len(hits) :
                r < t => (rec(r) # rec(t) /\ RanksBefore(store, query, rec(r), rec(t)))
           /\ \A j \in E \ {rec(r) : r \in 1..Len(hits)} :
                \A r \in 1..Len(hits) : RanksBefore(store, query, rec(r), j)

\* C2 witness: a filtered search returned fewer hits than there were eligible
\* records, two of the hits tie on score, and the record left out scores less.
C2_Witness ==
  /\ Searched /\ searched[1].k >= 2 /\ searched[1].filter # None
  /\ LET store == built[1].result.store
         query == searched[1].query
         hits == searched[1].result.hits
         E == Eligible(store, searched[1].filter)
     IN  /\ Cardinality(E) > searched[1].k
         /\ Cardinality(E) < Len(store.vectors)
         /\ Len(hits) = searched[1].k
         /\ hits[1].score = hits[2].score
         /\ RecordOf(store, hits[1]) < RecordOf(store, hits[2])
         /\ \E j \in E : ScoreLess(ScoreOf(store, query, j), hits[Len(hits)].score)

\* The inline constructor returned a store.
BuiltInline == built # None /\ built[1].by = "inline" /\ built[1].result.ok

\* The vectors the manifest carries inline, as the constructor reads them.
CarriedVectors ==
  [i \in 1..Len(manifest.value.entries) |->
     [num |-> manifest.value.entries[i].embedding, den2 |-> 1]]

SearchedWithMetas == searched # None /\ built[1].by # "trim"

\* The caller's predicate holds of the metadata: no predicate given, or the
\* metadata is there and carries the tag asked for.
PredicateHolds(filter, meta) ==
  filter = None \/ (meta # None /\ meta[1].tag = filter[1])

\* The records of the store whose metadata the caller's predicate holds of.
Passing(store, filter) ==
  {i \in 1..Len(store.vectors) : PredicateHolds(filter, store.metas[i])}

\* C11: whatever the filter and k, every hit is made from a record whose
\* metadata passes the filter; when exactly one record passes, there is at most
\* one hit.
C11_HitsPassFilter ==
  SearchedWithMetas
    => LET store == built[1].result.store
           hits == searched[1].result.hits
           E == Passing(store, searched[1].filter)
       IN  /\ searched[1].result.ok
           /\ \A r \in 1..Len(hits) :
                /\ \E i \in E : store.ids[i] = hits[r].id
                /\ PredicateHolds(searched[1].filter, hits[r].meta)
           /\ Cardinality(E) = 1 => Len(hits) <= 1

\* C11 witness: exactly one of several records passes the filter, k asks for
\* more, the one hit is that record, and a record the filter excludes scores
\* strictly higher than it.
C11_Witness ==
  /\ SearchedWithMetas /\ searched[1].filter # None /\ searched[1].k >= 2
  /\ LET store == built[1].result.store
         query == searched[1].query
         hits == searched[1].result.hits
         E == Passing(store, searched[1].filter)
     IN  /\ Cardinality(E) = 1 /\ Len(store.vectors) >= 3
         /\ Len(hits) = 1
         /\ RecordOf(store, hits[1]) \in E
         /\ \E j \in (1..Len(store.vectors)) \ E :
              ScoreLess(hits[1].score, ScoreOf(store, query, j))

\* C12: for k >= 1 search returns, without an error, exactly min(k, E) hits, E
\* the number of eligible records: size() hits when there is no filter and k is
\* at least size(), no hit when no record is eligible.
C12_KSaturation ==
  (SearchedWithMetas /\ searched[1].k >= 1)
    => LET store == built[1].result.store
           hits == searched[1].result.hits
           E == Eligible(store, searched[1].filter)
       IN  /\ searched[1].result.ok
           /\ Len(hits) = Min(searched[1].k, Cardinality(E))
           /\ (searched[1].filter = None /\ searched[1].k >= size(store))
                => Len(hits) = size(store)
           /\ E = {} => hits = << >>

\* C12 witness: k exceeds the store's size, there is no filter, and the search
\* returned all of the store's records, more than one.
C12_Witness ==
  /\ SearchedWithMetas /\ searched[1].filter = None
  /\ searched[1].k > size(built[1].result.store)
  /\ size(built[1].result.store) >= 2
  /\ Len(searched[1].result.hits) = size(built[1].result.store)

\* The inline constructor ran.
RanInline == built # None /\ built[1].by = "inline"

\* The entry carries exactly one of the embedding array and the base64 string.
CarriesExactlyOne(e) ==
  ("embedding" \in DOMAIN e) # ("embedding_b64" \in DOMAIN e)

\* The errors that report an entry without an embedding.
MissingEmbeddingErrors == {"ZodError", "No vectors loaded from manifest entries."}

\* C13: inline construction of a manifest with an entry that carries neither or
\* both of the embedding array and the base64 string returns no store and fails
\* with a missing-embedding error.
C13_ExactlyOneEmbedding ==
  (RanInline /\ \E i \in 1..Len(manifest.value.entries) :
                  ~ CarriesExactlyOne(manifest.value.entries[i]))
    => /\ ~ built[1].result.ok
       /\ built[1].result.error \in MissingEmbeddingErrors

\* C14: for a manifest that passes InftManifestSchema and whose entries all
\* carry one inline vector of the dim e_model declares, fromManifest returns a
\* store of as many records as entries, with e_model's id and dim.
C14_SchemaValidManifestLoads ==
  (/\ RanInline /\ built[1].schema = "embed"
   /\ InftManifestSchemaParse(manifest.value).ok
   /\ \A i \in 1..Len(manifest.value.entries) :
        /\ InlineVector(manifest.value.entries[i]) # None
        /\ Len(InlineVector(manifest.value.entries[i])[1]) = manifest.value.e_model.dim)
    => /\ built[1].result.ok
       /\ size(built[1].result.store) = Len(manifest.value.entries)
       /\ built[1].result.store.id = Some(manifest.value.e_model.id)
       /\ built[1].result.store.dim = Some(manifest.value.e_model.dim)

\* --------------------------------------------------------- contract claims

ContractChecked ==
  /\ call # << >>
  /\ call[1].fn = "ensureModelContract"
  /\ call[1].done

\* Exact equality of what the two sides report, absent values included.
IdsStringEqual == call[1].embedder.id = call[1].manifest.id
DimsEqual ==
  /\ call[1].embedder.dim # None
  /\ call[1].embedder.dim = call[1].manifest.dim

\* C15: ensureModelContract throws whenever the embedder's id is not
\* string-equal to the manifest model id and whenever the embedder's dim is not
\* equal to the manifest model dim; it returns normally only when both are
\* equal.
C15_ContractExact ==
  ContractChecked => (call[1].result.ok <=> (IdsStringEqual /\ DimsEqual))

\* -------------------------------------------------------- quant byte claims

\* What the decoder that ran gives for the encoder's own output.
DecodedAsWritten ==
  IF decoder = "current" THEN decodeVectorsBlob(Encoded)
  ELSE decodeVectorsBlobLegacy(Encoded)

\* A v0 buffer whose quant byte 1 was replaced by 2 has been decoded.
DecodedWithQuantTwo ==
  /\ phase = "decoded"
  /\ srcFormat = "v0"
  /\ Encoded[13] = 1
  /\ blob = [Encoded EXCEPT ![13] = 2]

\* C16: a v0 buffer whose quant byte 1 is replaced by 2 decodes to the same
\* vectors and the same quantization (fp16) as before; it is not rejected.
C16_QuantTwoAliasesFp16 ==
  DecodedWithQuantTwo =>
    /\ decoded.ok
    /\ DecodedAsWritten.ok
    /\ decoded.vectors = DecodedAsWritten.vectors
    /\ decoded.header.quant = QuantFp16

\* The quant byte of a v0 buffer, or the dtype byte of a v1 buffer handed to
\* the decoder that reads v1 headers, was replaced by an unrecognized code, and
\* the buffer has been decoded.
DecodedWithUnknownCode ==
  /\ phase = "decoded"
  /\ blob # Encoded
  /\ \/ srcFormat = "v0" /\ blob[13] \notin {0, 1, 2}
     \/ srcFormat = "v1" /\ blob[6] \notin {1, 2} /\ decoder = "current"

\* C17: decodeVectorsBlob rejects with an unknown-quant-code error every buffer
\* with valid magic whose v0 quant byte is not in {0, 1, 2} or whose v1 dtype
\* byte is not in {1, 2}; such a buffer never decodes to vectors.
C17_UnknownCodeRejected ==
  DecodedWithUnknownCode =>
    /\ ~ decoded.ok
    /\ decoded.error \in {"Unknown quant code in v0 header", "Unknown quant code"}

\* ------------------------------------------------------------ encoder claims

\* A non-empty list whose vectors all have the length of the first.
SameLengths(list) ==
  /\ Len(list) > 0
  /\ \A i \in 1..Len(list) : Len(list[i]) = Len(list[1])

\* C18: encodeVectorsBlob fails with an error and produces no bytes when the
\* list is empty or a vector's length differs from the first vector's; for
\* every other input it succeeds.
C18_EncodeRefusesExactly ==
  /\ phase = "encodeFailed" =>
       /\ ~ SameLengths(srcVectors)
       /\ ~ decoded.ok
       /\ decoded.error \in {"No vectors to encode", "Dimension mismatch"}
       /\ blob = << >>
  /\ phase \in {"encoded", "decoded"} => SameLengths(srcVectors)

C18_Witness ==
  /\ phase = "encodeFailed"
  /\ Len(srcVectors) > 1
  /\ decoded.error = "Dimension mismatch"

\* encodeVectorsBlob(vectors, quant) has returned bytes.
EncodedByDefault ==
  /\ call # << >>
  /\ call[1].fn = "encodeVectorsBlob"
  /\ call[1].done
  /\ call[1].result.ok

\* The bytes are the 16-byte v1 header for dim, count and quant followed by
\* the elements of the vectors in input order.
IsV1Layout(bytes, vectors, quant) ==
  LET count == Len(vectors)
      dim == Len(vectors[1])
      width == IF quant = QuantFp32 THEN 4 ELSE 2
  IN  /\ Len(bytes) = 16 + count * dim * width
      /\ SubSeq(bytes, 1, 4) = << 86, 69, 67, 66 >>
      /\ bytes[5] = 1
      /\ bytes[6] = (IF quant = QuantFp32 THEN 1 ELSE 2)
      /\ bytes[7] = 0 /\ bytes[8] = 0
      /\ SubSeq(bytes, 9, 12) = U32LE(dim)
      /\ SubSeq(bytes, 13, 16) = U32LE(count)
      /\ \A i \in 1..count : \A j \in 1..dim :
           LET at == 16 + ((i - 1) * dim + (j - 1)) * width
           IN  SubSeq(bytes, at + 1, at + width) =
                 (IF quant = QuantFp32 THEN F32Bytes(vectors[i][j])
                  ELSE U16LE(Float32ToFp16(vectors[i][j])))

\* C19: encodeVectorsBlob called without a format argument writes the v1
\* layout: magic "VECB", version 1, dtype 1 (fp32) or 2 (fp16), two zero bytes,
\* dim and count as little-endian u32, then the vectors in input order, in all
\* 16 + count * dim * (4 or 2) bytes.
C19_DefaultIsV1 ==
  EncodedByDefault =>
    IsV1Layout(call[1].result.bytes, call[1].vectors, call[1].quant)

\* -------------------------------------------------------- half float claims

\* |x| lies in the normal half-precision range 2^-14 .. 65504, and below 16 so
\* that |x| * 2^24 fits the integers of the model.
InNormalHalfRange(x) ==
  /\ x.e >= 113
  /\ x.e <= 130

\* floor(|x| * 2^24) with the sign of x, for |x| < 16.
Units24(x) ==
  LET mag == IF x.e = 0 THEN 0
             ELSE IF x.e >= 126 THEN (8388608 + x.m) * Pow2(x.e - 126)
             ELSE (8388608 + x.m) \div Pow2(126 - x.e)
  IN  IF x.s = 1 THEN 0 - mag ELSE mag

\* |x - y| <= 1e-3 implies this: 1e-3 * 2^24 = 16777.2..., and the two floors
\* differ by less than one more.
WithinTolerance(x, y) ==
  /\ Units24(x) - Units24(y) <= 16778
  /\ Units24(y) - Units24(x) <= 16778

\* C20: every component x in the normal half-precision range comes back from
\* the fp16 encoding within 1e-3 of x, components whose mantissa rounds up to
\* the next power of two (values just below 1 or 2) included.
C20_Fp16WithinTolerance ==
  (RoundTripped /\ MatchedCodec /\ srcQuant = QuantFp16) =>
    /\ decoded.ok
    /\ Len(decoded.vectors) = Len(srcVectors)
    /\ \A i \in 1..Len(srcVectors) :
         /\ Len(decoded.vectors[i]) = Len(srcVectors[i])
         /\ \A j \in 1..Len(srcVectors[i]) :
              InNormalHalfRange(srcVectors[i][j]) =>
                /\ decoded.vectors[i][j] = Fp16ToFloat32(Float32ToFp16(srcVectors[i][j]))
                /\ WithinTolerance(srcVectors[i][j], decoded.vectors[i][j])

\* ------------------------------------------------- external construction claims

\* The verifying constructor ran on a manifest that names a blob.
BuiltVerifying ==
  /\ built # None
  /\ built[1].by = "verify"
  /\ TruthyStr(Field(manifest.value, "vectors_uri"))

\* What each step of the construction finds in its input, taken on its own.
FetchFailed == ~ fetched.ok
ChecksumDeclared == ExpectedChecksum(manifest.value) # None
ChecksumWrong ==
  /\ fetched.ok
  /\ ChecksumDeclared
  /\ <<"sha256:", fetched.bytes>> # ExpectedChecksum(manifest.value)[1]
BlobUndecodable == fetched.ok /\ ~ decodeVectorsBlob(fetched.bytes).ok
BlobDimWrong ==
  /\ fetched.ok
  /\ decodeVectorsBlob(fetched.bytes).ok
  /\ Some(decodeVectorsBlob(fetched.bytes).header.dim) # Field(manifest.value.model, "dim")
BlobCountWrong ==
  /\ fetched.ok
  /\ decodeVectorsBlob(fetched.bytes).ok
  /\ Len(decodeVectorsBlob(fetched.bytes).vectors) # Len(manifest.value.entries)

\* C21: external construction applies fetch, checksum verification, decode,
\* dimension check and count check in this order: of the steps that would fail
\* the earliest one gives the error, and a fetch error surfaces unchanged.
C21_EarliestStepReports ==
  BuiltVerifying =>
    LET r == built[1].result
    IN  IF FetchFailed THEN r = fetched
        ELSE IF ChecksumWrong THEN ~ r.ok /\ r.error = "Vectors checksum mismatch"
        ELSE IF BlobUndecodable THEN r = decodeVectorsBlob(fetched.bytes)
        ELSE IF BlobDimWrong THEN ~ r.ok /\ r.error = "Blob dim != manifest dim"
        ELSE IF BlobCountWrong THEN ~ r.ok /\ r.error = "Blob count != manifest entries"
        ELSE r.ok

\* C21 witness: a blob that is both corrupted beyond decoding and different from
\* its declared checksum was reported as a checksum mismatch.
C21_Witness ==
  /\ BuiltVerifying
  /\ ChecksumWrong
  /\ BlobUndecodable
  /\ built[1].result.error = "Vectors checksum mismatch"

\* An external constructor returned a store.
StoreBuiltExternally == BuiltExternally /\ built[1].result.ok

\* The vectors of the fetched blob, as the decoder returns them.
BlobVectors ==
  LET d == decodeVectorsBlob(fetched.bytes)
  IN  [i \in 1..Len(d.vectors) |-> VecOfFloats(d.vectors[i])]

\* The model card of the manifest declares normalize = true.
DeclaredNormalized == Field(ModelCardOf(manifest.value), "normalize") = Some(TRUE)

\* C22: external construction normalizes every decoded vector to unit length
\* (a zero vector stays zero) exactly when the model card declares normalize =
\* false, and stores the decoded vectors unchanged when it declares true.
C22_NormalizesUnlessDeclared ==
  StoreBuiltExternally =>
    LET store == built[1].result.store
    IN  \A i \in 1..size(store) :
          IF DeclaredNormalized
            THEN store.vectors[i] = BlobVectors[i]
            ELSE /\ store.vectors[i].num = BlobVectors[i].num
                 /\ IsUnit(store.vectors[i]) \/ SumSq(BlobVectors[i].num) = 0

\* A search ran on a store an external constructor built.
SearchedExternalStore ==
  /\ Searched
  /\ built[1].by # "inline"
  /\ fetched.ok

\* The manifest entry with the id a hit carries (ids are unique in a manifest).
EntryOfHit(hit) ==
  CHOOSE i \in 1..Len(manifest.value.entries) : Some(manifest.value.entries[i].id) = hit.id

\* C23: in a store built by the external path record i pairs the i-th vector of
\* the blob with the i-th manifest entry, and every hit of a search carries
\* the id, text and meta of the entry whose blob vector gave its score.
C23_PositionalPairing ==
  SearchedExternalStore =>
    LET store == built[1].result.store
        entries == manifest.value.entries
        hits == searched[1].result.hits
    IN  /\ \A i \in 1..size(store) :
             /\ store.vectors[i].num = BlobVectors[i].num
             /\ store.ids[i] = Some(entries[i].id)
             /\ store.texts[i] = entries[i].text
        /\ \A r \in 1..Len(hits) :
             /\ \E i \in 1..Len(entries) : Some(entries[i].id) = hits[r].id
             /\ hits[r].score = ScoreOf(store, searched[1].query, EntryOfHit(hits[r]))
             /\ hits[r].text = entries[EntryOfHit(hits[r])].text
             /\ "meta" \in DOMAIN hits[r]
             /\ hits[r].meta = Field(entries[EntryOfHit(hits[r])], "meta")

\* ---------------------------------------------------------- store reuse claims

\* The store as its constructor returned it (the published document is what the
\* constructor was handed).
StoreAsBuilt ==
  IF built[1].by = "inline"
    THEN fromManifest(doc, built[1].reNormalize, built[1].schema).store
    ELSE fromManifestWithExternalVectors(doc, fetched).store

\* C24: a store is immutable after construction: size() and search() calls,
\* and the caller's assignments to its query vector and to the hits it was
\* returned (their meta included), leave the store's records as they were
\* built; size() stays the same and a repeated search returns the same hits.
C24_StoreImmutable ==
  (built # None /\ built[1].result.ok) =>
    /\ built[1].result.store = StoreAsBuilt
    /\ (searched # None /\ "again" \in DOMAIN searched[1]) =>
         /\ searched[1].again = searched[1].result
         /\ searched[1].sizeAgain = size(StoreAsBuilt)

\* ------------------------------------------------------------ service claims

\* The fields a loadManifest(uri) that returned normally left behind.
FieldsLoadedFrom(uri, env) ==
  LET m == loadManifest(SiteDoc(uri)[1]).value
  IN  [manifest |-> Some(m),
       store |-> Some(fromManifestWithExternalVectorsTrim(m, SiteBlob(uri)).store),
       embedder |-> Some(EmbedderInfoOf(env, m.e_model))]

\* C25: InftKnowledgeService.search throws 'not initialized' before any
\* successful loadManifest, and after a loadManifest that failed the service's
\* manifest, store and embedder are those of the last successful load, or still
\* unset: a query only runs against a store whose manifest passed the contract.
C25_OnlyContractCheckedStores ==
  service # << >> =>
    /\ service[1].fields =
         (IF service[1].loaded = None THEN ServiceFields
          ELSE FieldsLoadedFrom(service[1].loaded[1], service[1].env))
    /\ (service[1].last.method = "search" /\ service[1].loaded = None) =>
         /\ ~ service[1].last.result.ok
         /\ service[1].last.result.error =
              "InftKnowledgeService not initialized. Call loadManifest(uri) first."

\* Every loadManifest call has returned or thrown.
AllLoadsCompleted ==
  /\ service # << >>
  /\ "load" \in DOMAIN service[1]
  /\ \A t \in LoadTasks : service[1].load[t].pc \in {"done", "failed"}

\* C26: under every interleaving of loadManifest calls for different manifests
\* and search calls, once all loadManifest calls have completed the service's
\* manifest, store and embedder derive from one manifest, and no search
\* combines the store of one manifest with the embedder of another.
C26_OneManifestAtATime ==
  /\ AllLoadsCompleted =>
       /\ service[1].fields.store = service[1].fields.manifest
       /\ service[1].fields.embedder[1].of = service[1].fields.manifest[1]
  /\ (service # << >> /\ "find" \in DOMAIN service[1] /\ service[1].find.result # None) =>
       service[1].find.result[1].store = service[1].find.result[1].embedder.of

\* ------------------------------------------------------ ledger funding claims
FundingDone ==
  /\ call # << >>
  /\ call[1].fn = "ensureFundedLedger"
  /\ call[1].done
  /\ IsNum(call[1].min)
  /\ call[1].min[1] > 0

\* min(target, max(0, walletBalance - gasReserve))
Affordable ==
  MathMin(call[1].min,
          MathMax(Num(0), Minus(Num(call[1].walletBal), call[1].gasReserve)))

\* C27: every amount handed to addLedger or depositFund is at most
\* min(target, max(0, walletBalance - gasReserve)); a ledger whose balance is
\* at least the target gets no deposit; and with an existing ledger and nothing
\* above the reserve the function returns, with no deposit and no throw.
C27_FundsOnlyAffordable ==
  FundingDone =>
    LET r == call[1].result
        ledger == call[1].broker.ledger
    IN
      /\ \A i \in 1..Len(r.calls) : LessEq(r.calls[i].amount, Affordable)
      /\ (ledger.exists /\ ledger.balance >= call[1].min[1]) => r.calls = << >>
      /\ (ledger.exists /\ LessEq(Affordable, Num(0))) => (r.ok /\ r.calls = << >>)

\* --------------------------------------------------------------- top-k claims
\* C28: a search asked for k hits returns at most max(k, 0) of them, so none
\* for k <= 0, on every version of the store.
C28_AtMostKHits ==
  (searched # None /\ searched[1].result.ok) =>
    Len(searched[1].result.hits) <= Max(searched[1].k, 0)

\* ------------------------------------------------------ fp16 round trip claims
\* C29: every 16-bit pattern of a finite half (normal, subnormal, +0, -0)
\* comes back unchanged from fp16ToFloat32Array followed by
\* float32ToFp16Array.
C29_HalfRoundTrip ==
  (call # << >> /\ call[1].fn = "fp16RoundTrip" /\ call[1].done) =>
    call[1].result = call[1].src

\* -------------------------------------------------------- ipfs gateway claims
\* an ipfs://<cid>[/path] URI was handed over and its URL computed
FetchedIpfsUri ==
  /\ call # << >>
  /\ call[1].fn = "fetchBytesSmart"
  /\ call[1].done
  /\ dequote(call[1].uriOrPath) \in IpfsUris

\* the gateway base in force: the argument, else the environment the version
\* reads, else the default
GatewayInForce ==
  FirstTruthy(IF call[1].version = "uri"
                THEN << call[1].gateway, call[1].env.PINATA_GATEWAY, call[1].env.IPFS_GATEWAY >>
                ELSE << call[1].gateway, call[1].env.PINATA_GATEWAY >>,
              DefaultGateway)

\* C30: for an ipfs://<cid>[/path] URI and any gateway base (trailing slash or
\* not, trailing /ipfs or not, or defaulted) the URL requested is
\* <gateway origin>/ipfs/<cid>[/path], with the /ipfs/ segment exactly once.
C30_GatewayUrl ==
  FetchedIpfsUri =>
    /\ call[1].url # None
    /\ call[1].url[1] =
         << GatewayInForce[1] >> \o IpfsSegment \o Tail(dequote(call[1].uriOrPath))

====
